---- MODULE Spec2Model ----
(***************************************************************************)
(* A model of flint, a static front-end for Fortran sources:               *)
(*   - the statement classifier (Unit.statement, Unit.end_statement),      *)
(*   - the declaration parser of a unit's specification part,              *)
(*   - the execution-part scan that collects a unit's callees,             *)
(*   - the build-graph resolver (tools/makemake.py) and its link closure.  *)
(* Tokens are strings; a statement ("line") is a sequence of tokens.       *)
(* Every subsystem has its own specification over its own variables; the   *)
(* variables of the other subsystems stay at their initial values.         *)
(***************************************************************************)
EXTENDS Naturals, Sequences, FiniteSets, TLC

VARIABLES
    \* statement classifier
    line,       \* the statement handed to the classifier
    utype,      \* the unit kind (self.utype) end_statement is asked about
    op,         \* which predicate was applied: "none", "statement", "end_statement"
    result,     \* what it returned
    \* build-graph resolver (makemake)
    sources,    \* project.sources: [path, units] in project order
    executable, \* the --executable option, None when absent
    pc,         \* the pass makemake is in
    si,         \* index of the next source (passes) or program (link rules)
    programs,   \* dict program -> object file, in insertion order
    src_to_obj, \* dict source -> object
    modules_in_src,         \* list of modules created by all src
    object_file_for,        \* dict module/external -> object
    all_objs,               \* all objects
    c,                      \* the loop variable `c` of the second pass
    modules_used_by_object,
    externals_used_by_object,
    needed_for_link_by,
    rules,      \* the rules written to the makefile so far
    failure,    \* the exception that ended makemake, None while running
    \* link closure (__generate_link_list), call by call
    nflb,       \* the needed_for_link_by argument
    lstack,     \* the call stack, innermost call last
    obj_list,   \* obj_list, as passed down and returned
    lpc,        \* "run" until the outermost call has returned, then "done"
    truncated,  \* a call found level > limit and returned at once
    \* declaration parser (Unit.parse_declaration_construct)
    self,       \* the Unit whose specification part is parsed
    dline,      \* the declaration statement parsed last
    dbefore,    \* the unit as it was before that statement
    \* unit parser (Unit.parse)
    lines,          \* the statements the lexer yields, in order
    current_line,   \* lines.current_line, as an index into lines
    frames,         \* the Unit.parse calls in progress, innermost last
    parsed          \* the outcome of the outermost Unit.parse

classVars == <<line, utype, op, result>>

makeVars == <<sources, executable, pc, si, programs, src_to_obj,
              modules_in_src, object_file_for, all_objs, c,
              modules_used_by_object, externals_used_by_object,
              needed_for_link_by, rules, failure>>

linkVars == <<nflb, lstack, obj_list, lpc, truncated>>

declVars == <<self, dline, dbefore>>

parseVars == <<lines, current_line, frames, parsed>>

vars == <<line, utype, op, result, sources, executable, pc, si, programs,
          src_to_obj, modules_in_src, object_file_for, all_objs, c,
          modules_used_by_object, externals_used_by_object,
          needed_for_link_by, rules, failure,
          nflb, lstack, obj_list, lpc, truncated,
          self, dline, dbefore,
          lines, current_line, frames, parsed>>

None == "None"

\* ---------------------------------------------------------------- helpers

StartsWith(s, p) == Len(s) >= Len(p) /\ SubSeq(s, 1, Len(p)) = p

\* All sequences over S of length 1..n
RECURSIVE SeqsUpTo(_, _)
SeqsUpTo(S, n) ==
    IF n = 0 THEN {}
    ELSE LET shorter == SeqsUpTo(S, n - 1)
         IN  {<<x>> : x \in S} \cup shorter
             \cup {Append(s, x) : s \in {t \in shorter : Len(t) = n - 1}, x \in S}

\* The empty dict
EmptyMap == [k \in {} |-> None]

\* d[k] = v of a Python dict
Put(d, k, v) == [x \in DOMAIN d \cup {k} |-> IF x = k THEN v ELSE d[x]]

\* `x in lst` for a list
InList(x, lst) == \E i \in DOMAIN lst : lst[i] = x

NoRepeats(lst) == \A i, j \in DOMAIN lst : lst[i] = lst[j] => i = j

\* ---- the resting values of each subsystem's variables

ClassIdle ==
    /\ line = <<>>
    /\ utype = None
    /\ op = "none"
    /\ result = FALSE

MakeIdle ==
    /\ sources = <<>>
    /\ executable = None
    /\ pc = "idle"
    /\ si = 0
    /\ programs = <<>>
    /\ src_to_obj = EmptyMap
    /\ modules_in_src = <<>>
    /\ object_file_for = EmptyMap
    /\ all_objs = <<>>
    /\ c = None
    /\ modules_used_by_object = EmptyMap
    /\ externals_used_by_object = EmptyMap
    /\ needed_for_link_by = EmptyMap
    /\ rules = <<>>
    /\ failure = None

LinkIdle ==
    /\ nflb = EmptyMap
    /\ lstack = <<>>
    /\ obj_list = <<>>
    /\ lpc = "idle"
    /\ truncated = FALSE

\* Unit.__init__: the fields the specification part fills
NewUnit ==
    [name |-> None, utype |-> None, subprograms |-> <<>>, variables |-> <<>>,
     interfaces |-> <<>>, derived_types |-> <<>>, namelists |-> EmptyMap,
     used_modules |-> {}, callees |-> {}, grp_docstr |-> None,
     statements |-> <<>>,
     raised |-> None,   \* the exception a method of the unit ended with
     exec_part |-> {}]  \* the lines parse_execution was given (indices)

\* a statement: its tokens, the comment fragments before the first token
\* (head) and after each token (tails); shape records what the statement
\* declares and is read by the properties only
NoLine ==
    [toks |-> <<>>, head |-> <<>>, tails |-> <<>>,
     shape |-> [family |-> "none", vtype |-> None, intent |-> None,
                names |-> <<>>, own |-> <<>>, opens |-> FALSE,
                closes |-> FALSE]]

DeclIdle ==
    /\ self = NewUnit
    /\ dline = NoLine
    /\ dbefore = NewUnit

NotParsed == [status |-> "idle", exc |-> None, unit |-> NewUnit]

ParseIdle ==
    /\ lines = <<>>
    /\ current_line = 0
    /\ frames = <<>>
    /\ parsed = NotParsed

\* ------------------------------------------------------ statement classifier

unit_types == <<"program", "function", "subroutine", "module", "submodule",
                "block", "type">>

intrinsic_types == {"integer", "real", "double", "complex", "character",
                    "logical"}

unit_prefix == intrinsic_types \cup
               {"elemental", "impure", "non_recursive", "pure", "recursive"}

UnitTypeSet == {unit_types[i] : i \in DOMAIN unit_types}

\* idx = next((i for i, w in enumerate(line) if w in Unit.unit_types), -1),
\* 1-based here, 0 when no token is a unit-kind keyword
FirstUnitIdx(l) ==
    LET hits == {i \in DOMAIN l : l[i] \in UnitTypeSet}
    IN  IF hits = {} THEN 0 ELSE CHOOSE i \in hits : \A j \in hits : i <= j

\* The inner `while word != ')': word = next(words)`: the position of the first
\* ")" after position i, 0 when the iterator runs out (StopIteration)
NextClose(words, i) ==
    LET hits == {j \in DOMAIN words : j > i /\ words[j] = ")"}
    IN  IF hits = {} THEN 0 ELSE CHOOSE j \in hits : \A k \in hits : j <= k

\* The `while True` loop of Unit.statement over words = line[:idx], entered with
\* word = words[i].  StopIteration anywhere leaves the loop and returns True.
RECURSIVE PrefixScan(_, _)
PrefixScan(words, i) ==
    LET n == Len(words)
        \* position of `word` when the bottom `word = next(words)` is reached;
        \* 0: StopIteration was raised before, n + 1 stands for `return False`
        at == IF words[i] \in intrinsic_types
              THEN IF i + 1 > n THEN 0
                   ELSE IF words[i + 1] = "("
                        THEN NextClose(words, i + 1)
                        ELSE i + 1
              ELSE IF words[i] \notin unit_prefix THEN n + 1 ELSE i
    IN  IF at = n + 1 THEN FALSE
        ELSE IF at = 0 \/ at + 1 > n THEN TRUE
        ELSE PrefixScan(words, at + 1)

\* Unit.statement(line)
statement(l) ==
    LET idx == FirstUnitIdx(l)
    IN  IF idx = 1 THEN TRUE
        ELSE IF idx > 1 THEN PrefixScan(SubSeq(l, 1, idx - 1), 1)
        ELSE FALSE

\* Unit.end_statement(self, line); the fall-through `None` is falsy
end_statement(k, l) ==
    IF StartsWith(l[1], "end")
    THEN IF Len(l) = 1 /\ l[1] \in {"end", "end" \o k} THEN TRUE
         ELSE IF Len(l) >= 2 /\ l[1] = "end" /\ l[2] = k THEN TRUE
         ELSE FALSE
    ELSE FALSE

UpperLetters == "ABCDEFGHIJKLMNOPQRSTUVWXYZ"
LowerLetters == "abcdefghijklmnopqrstuvwxyz"

UpperChar(ch) ==
    LET hits == {i \in 1..Len(LowerLetters) : SubSeq(LowerLetters, i, i) = ch}
    IN  IF hits = {} THEN ch
        ELSE LET i == CHOOSE i \in hits : TRUE IN SubSeq(UpperLetters, i, i)

\* self.utype[0].upper()
UnitTag(k) == UpperChar(SubSeq(k, 1, 1))

StopIteration == "StopIteration"
AssertionError == "AssertionError"


Raise(u, exc) == [u EXCEPT !.raised = exc]

IndexError == "IndexError"

\* Unit.parse_header, lines 163-193
parse_header(u, toks) ==
    LET idx == FirstUnitIdx(toks)
    IN  IF idx = 0 THEN Raise(u, StopIteration)
        ELSE IF Len(toks) >= 2 /\ idx + 1 > Len(toks)
        THEN Raise([u EXCEPT !.utype = toks[idx]], IndexError)
        ELSE [u EXCEPT !.utype = toks[idx],
                       !.name = IF Len(toks) >= 2 THEN toks[idx + 1]
                                ELSE None,
                       !.statements = Append(@, UnitTag(toks[idx]))]

\* unit.py, lines 5-12
unit_types_0 == UnitTypeSet \ {"type"}

\* Unit.parse_name of unit.py, lines 124-137
parse_name(u, toks) ==
    LET hits == {i \in DOMAIN toks : toks[i] \in unit_types_0}
    IN  IF hits = {} THEN Raise(u, StopIteration)
        ELSE [u EXCEPT
                 !.utype = toks[CHOOSE i \in hits : \A j \in hits : i <= j],
                 !.name = IF Len(toks) >= 2 THEN toks[2] ELSE None]

\* ---- bounded inputs of the classifier
MaxLineLen == 3

\* tokens a header line is built from
HeaderTokens == {"integer", "real", "(", ")", "pure", "foo", "function",
                 "module"}

\* tokens an end line is built from
EndTokens == {"end", "endmodule", "endsubroutine", "module", "subroutine",
              "foo", "endfoo"}

EndKinds == {"module", "subroutine", "type"}

HeaderLines == SeqsUpTo(HeaderTokens, MaxLineLen + 1)
EndLines == SeqsUpTo(EndTokens, MaxLineLen)

\* The classifier is stateless: an initial state is one call's arguments.
ClassInit ==
    /\ op = "none"
    /\ result = FALSE
    /\ \/ line \in HeaderLines /\ utype = None
       \/ line \in EndLines /\ utype \in EndKinds
    /\ MakeIdle
    /\ LinkIdle
    /\ DeclIdle
    /\ ParseIdle

CallStatement ==
    /\ op = "none"
    /\ utype = None
    /\ op' = "statement"
    /\ result' = statement(line)
    /\ UNCHANGED <<line, utype>>
    /\ UNCHANGED <<makeVars, linkVars, declVars, parseVars>>

CallEndStatement ==
    /\ op = "none"
    /\ utype # None
    /\ op' = "end_statement"
    /\ result' = end_statement(utype, line)
    /\ UNCHANGED <<line, utype>>
    /\ UNCHANGED <<makeVars, linkVars, declVars, parseVars>>

\* Source.parse, lines 33-35: a line that opens a unit makes a Unit, whose
\* parse begins with the header (units/unit.py, Unit.parse_header)
CallParseHeader ==
    /\ op = "statement"
    /\ result = TRUE
    /\ op' = "parse_header"
    /\ self' = parse_header(NewUnit, line)
    /\ UNCHANGED <<line, utype, result, dline, dbefore>>
    /\ UNCHANGED <<makeVars, linkVars, parseVars>>

\* the same with the Unit of unit.py, whose parse begins with parse_name
CallParseName ==
    /\ op = "statement"
    /\ result = TRUE
    /\ op' = "parse_name"
    /\ self' = parse_name(NewUnit, line)
    /\ UNCHANGED <<line, utype, result, dline, dbefore>>
    /\ UNCHANGED <<makeVars, linkVars, parseVars>>

ClassNext ==
    \/ CallStatement
    \/ CallEndStatement
    \/ CallParseHeader
    \/ CallParseName

SpecClass == ClassInit /\ [][ClassNext]_vars

\* ---- C1
\* The three end-spellings of the claim: the bare `end`, a line that begins
\* with the two tokens `end k`, a line that begins with the fused token
\* `end<k>`; what follows (an optional name) is not looked at.
C1_ClaimCloses(k, l) ==
    \/ l = <<"end">>
    \/ Len(l) >= 2 /\ l[1] = "end" /\ l[2] = k
    \/ l[1] = "end" \o k

\* C1: for every unit kind k and every line, end_statement is true exactly
\* when the line is one of the three end-spellings of kind k, with or without
\* a trailing name.
C1_EndStatementExact ==
    op = "end_statement" => (result <=> C1_ClaimCloses(utype, line))

\* ---- C9
\* A legal prefix, as the claim words it: every token is an intrinsic-type
\* keyword, belongs to one balanced parenthesized selector that directly
\* follows an intrinsic-type keyword, or is a procedure prefix keyword.
RECURSIVE MatchClose(_, _, _)
MatchClose(words, j, depth) ==
    \* position of the ")" closing the "(" at depth 1 seen before j; 0 if none
    IF j > Len(words) THEN 0
    ELSE IF words[j] = "(" THEN MatchClose(words, j + 1, depth + 1)
    ELSE IF words[j] = ")"
         THEN IF depth = 1 THEN j ELSE MatchClose(words, j + 1, depth - 1)
    ELSE MatchClose(words, j + 1, depth)

PrefixKeywords == {"elemental", "impure", "pure", "recursive", "non_recursive"}

RECURSIVE C9_LegalFrom(_, _)
C9_LegalFrom(words, i) ==
    IF i > Len(words) THEN TRUE
    ELSE IF words[i] \in intrinsic_types
         THEN IF i + 1 <= Len(words) /\ words[i + 1] = "("
              THEN LET close == MatchClose(words, i + 2, 1)
                   IN  close # 0 /\ C9_LegalFrom(words, close + 1)
              ELSE C9_LegalFrom(words, i + 1)
    ELSE IF words[i] \in PrefixKeywords THEN C9_LegalFrom(words, i + 1)
    ELSE FALSE

\* C9: Unit.statement is true when the first unit-kind keyword is the first
\* token; when the keyword comes later it is true only if every token before
\* it belongs to a legal prefix; with no unit-kind keyword it is false.
C9_StatementLegalPrefix ==
    op = "statement" =>
        LET idx == FirstUnitIdx(line)
        IN  /\ idx = 1 => result
            /\ idx = 0 => ~result
            /\ idx > 1 =>
                  (result => C9_LegalFrom(SubSeq(line, 1, idx - 1), 1))

\* ------------------------------------------------------ build-graph resolver

\* str.lower(), letter by letter
LowerChar(ch) ==
    LET hits == {i \in 1..Len(UpperLetters) : SubSeq(UpperLetters, i, i) = ch}
    IN  IF hits = {} THEN ch
        ELSE LET i == CHOOSE i \in hits : TRUE IN SubSeq(LowerLetters, i, i)

RECURSIVE Lower(_)
Lower(str) ==
    IF str = "" THEN ""
    ELSE LowerChar(SubSeq(str, 1, 1)) \o Lower(SubSeq(str, 2, Len(str)))

\* str.replace(old, new): every occurrence, left to right
RECURSIVE Replace(_, _, _)
Replace(str, old, new) ==
    IF Len(str) < Len(old) THEN str
    ELSE IF SubSeq(str, 1, Len(old)) = old
         THEN new \o Replace(SubSeq(str, Len(old) + 1, Len(str)), old, new)
    ELSE SubSeq(str, 1, 1) \o Replace(SubSeq(str, 2, Len(str)), old, new)

\* str.split('/')[-1]
Basename(path) ==
    LET hits == {i \in 1..Len(path) : SubSeq(path, i, i) = "/"}
    IN  IF hits = {} THEN path
        ELSE LET last == CHOOSE i \in hits : \A j \in hits : j <= i
             IN  SubSeq(path, last + 1, Len(path))

\* this_src.split('/')[-1].replace('.f90','.o').replace('.F90','.o')
ObjectName(this_src) ==
    Replace(Replace(Basename(this_src), ".f90", ".o"), ".F90", ".o")

\* `if level<=99`; the depth is scaled down so that the guard is reached
LevelLimit == 2

\* __generate_link_list(objects, needed_for_link_by, obj_list, level),
\* with needs for needed_for_link_by and lst for obj_list
RECURSIVE generate_link_list(_, _, _, _)
RECURSIVE LinkObjects(_, _, _, _, _)
RECURSIVE LinkNeeded(_, _, _, _, _)
\* `for n in needed_for_link_by[o]` from position j on
LinkNeeded(needed, needs, lst, level, j) ==
    IF j > Len(needed) THEN lst
    ELSE LinkNeeded(needed, needs,
                    generate_link_list(<<needed[j]>>, needs, lst, level + 1),
                    level, j + 1)
\* `for o in objects` from position i on
LinkObjects(objects, needs, lst, level, i) ==
    IF i > Len(objects) THEN lst
    ELSE LET o == objects[i]
         IN  IF InList(o, lst)
             THEN LinkObjects(objects, needs, lst, level, i + 1)
             ELSE LET added == Append(lst, o)
                      after == IF o \in DOMAIN needs
                               THEN LinkNeeded(needs[o], needs, added, level, 1)
                               ELSE added
                  IN  LinkObjects(objects, needs, after, level, i + 1)
generate_link_list(objects, needs, lst, level) ==
    IF level <= LevelLimit
    THEN LinkObjects(objects, needs, lst, level, 1)
    ELSE lst

\* ---- the project: units as the parser leaves them.  A Python set
\* (used_modules, callees) is given by the order its iteration yields.
MkUnit(ut, nm, used, calls, subs) ==
    [utype |-> ut, name |-> nm, used_modules |-> used, callees |-> calls,
     subprograms |-> subs]
MkSub(nm, calls) == MkUnit("subroutine", nm, <<>>, calls, <<>>)
MkSource(path, units) == [path |-> path, units |-> units]

\* project.externals, by name
externals == <<"ext">>

SourceMenu == {
    MkSource("src/m.f90", <<MkUnit("module", "m", <<>>, <<>>, <<>>)>>),
    MkSource("src/p.f90", <<MkUnit("program", "p", <<"m">>, <<"ext">>, <<>>)>>),
    MkSource("src/e.f90", <<MkUnit("subroutine", "ext", <<>>, <<>>, <<>>)>>),
    MkSource("lib/q.F90", <<MkUnit("program", "q", <<"M", "iso_c_binding">>, <<>>,
                                   <<MkSub("h", <<"foo", "ext">>)>>)>>),
    MkSource("lib/m2.f90", <<MkUnit("module", "M", <<>>, <<>>, <<>>)>>),
    MkSource("lib/w.f90", <<MkUnit("subroutine", "w", <<>>, <<>>,
                                   <<MkSub("ext", <<"foo">>)>>)>>),
    MkSource("lib/k.f90", <<MkUnit("module", "k", <<"m">>, <<>>, <<>>),
                            MkUnit("module", "K", <<>>, <<>>, <<>>)>>),
    MkSource("lib/m.f90", <<MkUnit("module", "z", <<>>, <<>>,
                                   <<MkSub("ext", <<>>)>>)>>),
    MkSource("lib/r.f90", <<MkUnit("program", "p", <<>>, <<>>, <<>>)>>),
    MkSource("lib/a.f90.F90", <<MkUnit("subroutine", "v", <<>>, <<>>, <<>>)>>),
    MkSource("lib/ab.f90", <<MkUnit("module", "a", <<>>, <<>>, <<>>),
                             MkUnit("module", "b", <<"A">>, <<>>, <<>>)>>)
}

MaxSources == 3

MakeInit ==
    /\ sources \in {ss \in SeqsUpTo(SourceMenu, MaxSources) :
                       \A i, j \in DOMAIN ss : ss[i].path = ss[j].path => i = j}
    /\ executable \in {None, "a.out", "m"}
    /\ pc = "first"
    /\ si = 1
    /\ programs = <<>>
    /\ src_to_obj = EmptyMap
    /\ modules_in_src = <<>>
    /\ object_file_for = EmptyMap
    /\ all_objs = <<>>
    /\ c = None
    /\ modules_used_by_object = EmptyMap
    /\ externals_used_by_object = EmptyMap
    /\ needed_for_link_by = EmptyMap
    /\ rules = <<>>
    /\ failure = None
    /\ ClassIdle
    /\ LinkIdle
    /\ DeclIdle
    /\ ParseIdle

\* `key in programs`
ProgramNames == {programs[i].name : i \in DOMAIN programs}

\* a module is seen whose case-folded name is already in modules_in_src,
\* with a bug: the names are compared as written
ModuleSeen_CaseSensitive(name, mods) == InList(name, mods)

\* `unit.name.lower() not in modules_in_src` of line 139, negated
ModuleSeen(name, mods) == InList(Lower(name), mods)

\* ---- first pass, one source file: lines 127-140
\* the `for unit in src.units` loop from unit u on, over
\* acc = [programs, modules_in_src, fail]
RECURSIVE FirstPassUnits(_, _, _, _)
FirstPassUnits(acc, units, u, this_obj) ==
    IF u > Len(units) \/ acc.fail # None THEN acc
    ELSE LET unit == units[u]
             dupProgram ==
                 /\ unit.utype = "program"
                 /\ \E i \in DOMAIN acc.programs : acc.programs[i].name = unit.name
             progs == IF unit.utype = "program"
                      THEN Append(acc.programs,
                                  [name |-> unit.name, obj |-> this_obj])
                      ELSE acc.programs
             dupModule ==
                 /\ unit.utype = "module"
                 /\ ModuleSeen(unit.name, acc.modules_in_src)
             mods == IF unit.utype = "module"
                     THEN Append(acc.modules_in_src, Lower(unit.name))
                     ELSE acc.modules_in_src
         IN  IF dupProgram
             THEN [acc EXCEPT !.fail = "DuplicateProgram"]
             ELSE IF dupModule
             THEN [acc EXCEPT !.programs = progs, !.fail = "DuplicateModule"]
             ELSE FirstPassUnits([acc EXCEPT !.programs = progs,
                                             !.modules_in_src = mods],
                                 units, u + 1, this_obj)

FirstPassSrc ==
    /\ pc = "first"
    /\ si <= Len(sources)
    /\ LET this_src == sources[si].path
           this_obj == ObjectName(this_src)
       IN  /\ src_to_obj' = Put(src_to_obj, this_src, this_obj)
           /\ IF InList(this_obj, all_objs)
              THEN \* the assert of line 131 (its message cannot be formatted:
                   \* a TypeError replaces the AssertionError)
                   /\ failure' = "DuplicateObject"
                   /\ pc' = "failed"
                   /\ UNCHANGED <<all_objs, programs, modules_in_src, si>>
              ELSE LET acc == FirstPassUnits(
                                  [programs |-> programs,
                                   modules_in_src |-> modules_in_src,
                                   fail |-> None],
                                  sources[si].units, 1, this_obj)
                   IN  /\ all_objs' = Append(all_objs, this_obj)
                       /\ programs' = acc.programs
                       /\ modules_in_src' = acc.modules_in_src
                       /\ failure' = acc.fail
                       /\ pc' = IF acc.fail # None THEN "failed"
                                ELSE IF si = Len(sources) THEN "all"
                                ELSE "first"
                       /\ si' = IF acc.fail # None THEN si ELSE si + 1
    /\ UNCHANGED <<sources, executable, object_file_for, c,
                   modules_used_by_object, externals_used_by_object,
                   needed_for_link_by, rules>>
    /\ UNCHANGED <<classVars, linkVars, declVars, parseVars>>

\* ---- target "all:", lines 144-147
WriteAll ==
    /\ pc = "all"
    /\ IF executable = None
       THEN /\ programs' = programs
            /\ failure' = None
       ELSE IF Len(programs) >= 2
       THEN /\ programs' = programs
            /\ failure' = "ExecutableWithSeveralPrograms"
       ELSE IF Len(programs) = 0
       THEN \* list(programs.keys())[0]
            /\ programs' = programs
            /\ failure' = "IndexError"
       ELSE \* programs[executable] = programs.pop(first key)
            /\ programs' = <<[name |-> executable, obj |-> programs[1].obj]>>
            /\ failure' = None
    /\ pc' = IF failure' # None THEN "failed" ELSE "second"
    /\ si' = 1
    /\ rules' = IF failure' # None THEN rules
                ELSE Append(rules, [kind |-> "all",
                                    targets |-> <<"all">>,
                                    prereqs |-> [i \in DOMAIN programs' |->
                                                    programs'[i].name]])
    /\ UNCHANGED <<sources, executable, src_to_obj, modules_in_src,
                   object_file_for, all_objs, c, modules_used_by_object,
                   externals_used_by_object, needed_for_link_by>>
    /\ UNCHANGED <<classVars, linkVars, declVars, parseVars>>

\* ---- second pass, one source file: lines 157-205, over
\* acc = [uses_modules, uses_externals, modules_provided, off, c, fail]
\* where off is object_file_for

\* `for c in sub.callees` from position k on (lines 178-180)
RECURSIVE SecondPassCallees(_, _, _)
SecondPassCallees(acc, callees, k) ==
    IF k > Len(callees) THEN acc
    ELSE SecondPassCallees(
             [acc EXCEPT !.c = callees[k],
                         !.uses_externals =
                             IF InList(callees[k], externals)
                             THEN Append(@, callees[k]) ELSE @],
             callees, k + 1)

\* lines 182-184: the provider of an external subprogram
SubProvider(acc, sub, this_obj) ==
    IF ~InList(sub.name, externals) THEN acc
    ELSE IF acc.c = None THEN [acc EXCEPT !.fail = "NameError"]
    ELSE IF acc.c \in DOMAIN acc.off
         THEN [acc EXCEPT !.fail = "DuplicateExternalDefinition"]
    ELSE [acc EXCEPT !.off = Put(@, acc.c, this_obj)]

\* `for sub in unit.subprograms` from position j on (lines 176-184)
RECURSIVE SecondPassSubs(_, _, _, _)
SecondPassSubs(acc, subs, j, this_obj) ==
    IF j > Len(subs) \/ acc.fail # None THEN acc
    ELSE SecondPassSubs(
             SubProvider(SecondPassCallees(acc, subs[j].callees, 1),
                         subs[j], this_obj),
             subs, j + 1, this_obj)

\* `for m in unit.used_modules` from position k on (lines 171-173)
RECURSIVE SecondPassUses(_, _, _, _)
SecondPassUses(acc, used, k, mods) ==
    IF k > Len(used) THEN acc
    ELSE SecondPassUses(
             [acc EXCEPT !.uses_modules =
                             IF InList(Lower(used[k]), mods)
                             THEN Append(@, Lower(used[k])) ELSE @],
             used, k + 1, mods)

\* lines 165-168: the provider of a module
ModuleProvider(acc, unit, this_obj) ==
    IF unit.utype # "module" THEN acc
    ELSE IF InList(Lower(unit.name), acc.modules_provided)
         THEN [acc EXCEPT !.fail = "DuplicateModule"]
    ELSE [acc EXCEPT !.modules_provided = Append(@, Lower(unit.name)),
                     !.off = Put(@, Lower(unit.name), this_obj)]

\* lines 186-188: the provider of an external top-level unit
UnitProvider(acc, unit, this_obj) ==
    IF acc.fail # None \/ ~InList(unit.name, externals) THEN acc
    ELSE IF unit.name \in DOMAIN acc.off
         THEN [acc EXCEPT !.fail = "DuplicateExternalDefinition"]
    ELSE [acc EXCEPT !.off = Put(@, unit.name, this_obj)]

\* `for unit in src.units` from position u on (lines 164-188)
RECURSIVE SecondPassUnits(_, _, _, _, _)
SecondPassUnits(acc, units, u, this_obj, mods) ==
    IF u > Len(units) \/ acc.fail # None THEN acc
    ELSE LET a1 == ModuleProvider(acc, units[u], this_obj)
             a2 == IF a1.fail # None THEN a1
                   ELSE SecondPassUses(a1, units[u].used_modules, 1, mods)
             a3 == SecondPassSubs(a2, units[u].subprograms, 1, this_obj)
             a4 == UnitProvider(a3, units[u], this_obj)
         IN  SecondPassUnits(a4, units, u + 1, this_obj, mods)

\* lines 196-205: the rules of one source file
SourceRules(this_obj, this_src, modules_provided, uses_modules) ==
    (IF modules_provided # <<>>
     THEN <<[kind |-> "mod",
             targets |-> [i \in DOMAIN modules_provided |->
                             modules_provided[i] \o ".mod"],
             prereqs |-> <<this_obj>>]>>
     ELSE <<>>)
    \o <<[kind |-> "obj",
          targets |-> <<this_obj>>,
          prereqs |-> <<this_src>> \o
                      [i \in DOMAIN uses_modules |-> uses_modules[i] \o ".mod"]]>>

SecondPassSrc ==
    /\ pc = "second"
    /\ si <= Len(sources)
    /\ LET this_src == sources[si].path
           this_obj == src_to_obj[this_src]
           acc == SecondPassUnits(
                      [uses_modules |-> <<>>, uses_externals |-> <<>>,
                       modules_provided |-> <<>>, off |-> object_file_for,
                       c |-> c, fail |-> None],
                      sources[si].units, 1, this_obj, modules_in_src)
       IN  /\ object_file_for' = acc.off
           /\ c' = acc.c
           /\ failure' = acc.fail
           /\ IF acc.fail # None
              THEN /\ pc' = "failed"
                   /\ UNCHANGED <<si, modules_used_by_object,
                                  externals_used_by_object, rules>>
              ELSE /\ modules_used_by_object' =
                        IF acc.uses_modules # <<>>
                        THEN Put(modules_used_by_object, this_obj,
                                 acc.uses_modules)
                        ELSE modules_used_by_object
                   /\ externals_used_by_object' =
                        IF acc.uses_externals # <<>>
                        THEN Put(externals_used_by_object, this_obj,
                                 acc.uses_externals)
                        ELSE externals_used_by_object
                   /\ rules' = rules \o SourceRules(this_obj, this_src,
                                                    acc.modules_provided,
                                                    acc.uses_modules)
                   /\ si' = si + 1
                   /\ pc' = IF si = Len(sources) THEN "third" ELSE "second"
    /\ UNCHANGED <<sources, executable, programs, src_to_obj, modules_in_src,
                   all_objs, needed_for_link_by>>
    /\ UNCHANGED <<classVars, linkVars, declVars, parseVars>>

\* ---- third pass: lines 211-228
\* the objects providing `names`, each once, in order (lines 216-220, 222-226)
RECURSIVE ProvidersOf(_, _, _)
ProvidersOf(names, k, objects) ==
    IF k > Len(names) THEN objects
    ELSE ProvidersOf(names, k + 1,
             IF /\ names[k] \in DOMAIN object_file_for
                /\ ~InList(object_file_for[names[k]], objects)
             THEN Append(objects, object_file_for[names[k]])
             ELSE objects)

NeededBy(this_obj) ==
    LET o1 == IF this_obj \in DOMAIN modules_used_by_object
              THEN ProvidersOf(modules_used_by_object[this_obj], 1, <<>>)
              ELSE <<>>
    IN  IF this_obj \in DOMAIN externals_used_by_object
        THEN ProvidersOf(externals_used_by_object[this_obj], 1, o1)
        ELSE o1

ThirdPass ==
    /\ pc = "third"
    /\ needed_for_link_by' =
           [o \in {src_to_obj[p] : p \in DOMAIN src_to_obj} |-> NeededBy(o)]
    /\ pc' = IF Len(programs) = 0 THEN "clean" ELSE "link"
    /\ si' = 1
    /\ UNCHANGED <<sources, executable, programs, src_to_obj, modules_in_src,
                   object_file_for, all_objs, c, modules_used_by_object,
                   externals_used_by_object, rules, failure>>
    /\ UNCHANGED <<classVars, linkVars, declVars, parseVars>>

\* ---- the link rule of one program: lines 233-236
LinkStart(prog) == object_file_for[prog]

LinkRule ==
    /\ pc = "link"
    /\ si <= Len(programs)
    /\ LET prog == programs[si].name
       IN  IF prog \notin DOMAIN object_file_for
           THEN /\ failure' = "KeyError"
                /\ pc' = "failed"
                /\ UNCHANGED <<rules, si>>
           ELSE /\ rules' = Append(rules,
                       [kind |-> "link",
                        targets |-> <<prog>>,
                        prereqs |-> generate_link_list(<<LinkStart(prog)>>,
                                        needed_for_link_by, <<>>, 0)])
                /\ si' = si + 1
                /\ pc' = IF si = Len(programs) THEN "clean" ELSE "link"
                /\ failure' = None
    /\ UNCHANGED <<sources, executable, programs, src_to_obj, modules_in_src,
                   object_file_for, all_objs, c, modules_used_by_object,
                   externals_used_by_object, needed_for_link_by>>
    /\ UNCHANGED <<classVars, linkVars, declVars, parseVars>>

\* ---- cleanup rules: lines 240-242
Cleanup ==
    /\ pc = "clean"
    /\ rules' = Append(rules, [kind |-> "clean", targets |-> <<"clean">>,
                               prereqs |-> <<>>])
    /\ pc' = "done"
    /\ UNCHANGED <<sources, executable, si, programs, src_to_obj,
                   modules_in_src, object_file_for, all_objs, c,
                   modules_used_by_object, externals_used_by_object,
                   needed_for_link_by, failure>>
    /\ UNCHANGED <<classVars, linkVars, declVars, parseVars>>

MakeNext ==
    \/ FirstPassSrc
    \/ WriteAll
    \/ SecondPassSrc
    \/ ThirdPass
    \/ LinkRule
    \/ Cleanup

SpecMake == MakeInit /\ [][MakeNext]_vars

\* ---- claims about the build-graph resolver

Terminal == pc \in {"done", "failed"}

LinkRules == {rules[i] : i \in {j \in DOMAIN rules : rules[j].kind = "link"}}

SeqSet(q) == {q[i] : i \in DOMAIN q}

\* every name a unit calls, itself or in a contained subprogram
CalledBy(unit) ==
    SeqSet(unit.callees) \cup
    UNION {SeqSet(unit.subprograms[j].callees) : j \in DOMAIN unit.subprograms}

UnitsOf(i) == SeqSet(sources[i].units)

\* ---- C2
\* file i1 defines a module, the program prog of file i2 uses it and calls
\* the external `ext`, file i3 defines `ext`; these are all the files
C2_Scenario(i1, i2, i3, prog) ==
    /\ {i1, i2, i3} = DOMAIN sources
    /\ Cardinality({i1, i2, i3}) = 3
    /\ prog \in UnitsOf(i2) /\ prog.utype = "program"
    /\ \E m \in UnitsOf(i1) :
          m.utype = "module" /\ m.name \in SeqSet(prog.used_modules)
    /\ \E e \in SeqSet(externals) :
          /\ e \in CalledBy(prog)
          /\ \E d \in UnitsOf(i3) : d.utype = "subroutine" /\ d.name = e
    /\ \A i \in DOMAIN sources : Len(sources[i].units) = 1

\* C2: with a module in one file, a program in a second file that uses it
\* and calls the external ext, and ext defined in a third file, the link
\* rule written for the program lists the objects of all three files.
C2_LinkListHasModuleAndExternal ==
    Terminal =>
        \A i1, i2, i3 \in DOMAIN sources : \A prog \in UnitsOf(i2) :
            C2_Scenario(i1, i2, i3, prog) =>
                \E r \in LinkRules :
                    /\ r.targets \in {<<prog.name>>, <<executable>>}
                    /\ {ObjectName(sources[i].path) : i \in {i1, i2, i3}}
                           \subseteq SeqSet(r.prereqs)

\* ---- C3
ModuleUnits ==
    UNION {{<<i, u>> : u \in {v \in DOMAIN sources[i].units :
                                 sources[i].units[v].utype = "module"}} :
           i \in DOMAIN sources}

\* two top-level module units, anywhere in the project, with the same
\* case-folded name
DupModules ==
    \E a, b \in ModuleUnits :
        /\ a # b
        /\ Lower(sources[a[1]].units[a[2]].name)
             = Lower(sources[b[1]].units[b[2]].name)

FirstPassFailures == {"DuplicateModule", "DuplicateObject", "DuplicateProgram"}

\* C3 as stated: with a duplicated module name makemake ends in the
\* duplicate-module failure, and no link rule is written; when it does not
\* fail every module name is mapped to the object of the file defining it.
C3_DuplicateModuleFailure ==
    /\ DupModules =>
          /\ LinkRules = {}
          /\ pc \in {"first", "failed"}
          /\ Terminal => failure = "DuplicateModule"
    /\ pc \in {"third", "link", "clean", "done"} =>
          \A a \in ModuleUnits :
              LET nm == Lower(sources[a[1]].units[a[2]].name)
              IN  /\ nm \in DOMAIN object_file_for
                  /\ object_file_for[nm] = src_to_obj[sources[a[1]].path]

\* C3 (amended): with a duplicated module name makemake never leaves the
\* first pass: it ends there in a fatal failure, the duplicate-module one
\* unless a duplicate object or a duplicate program stops it first, and no
\* link rule is written; modules_in_src never holds a name twice; once the
\* usage pass is over every module name is mapped to the object of the file
\* defining it.
C3_DuplicateModuleStopsFirstPass ==
    /\ DupModules =>
          /\ LinkRules = {}
          /\ pc \in {"first", "failed"}
          /\ Terminal => failure \in FirstPassFailures
    /\ \A i, j \in DOMAIN modules_in_src :
          modules_in_src[i] = modules_in_src[j] => i = j
    /\ pc \in {"third", "link", "clean", "done"} =>
          \A a \in ModuleUnits :
              LET nm == Lower(sources[a[1]].units[a[2]].name)
              IN  /\ nm \in DOMAIN object_file_for
                  /\ object_file_for[nm] = src_to_obj[sources[a[1]].path]

\* two files define the same module in different letter case, and the
\* first pass has ended in the duplicate-module failure
C3_Witness ==
    /\ pc = "failed"
    /\ failure = "DuplicateModule"
    /\ \E a, b \in ModuleUnits :
          /\ a[1] # b[1]
          /\ sources[a[1]].units[a[2]].name # sources[b[1]].units[b[2]].name
          /\ Lower(sources[a[1]].units[a[2]].name)
               = Lower(sources[b[1]].units[b[2]].name)

\* ---- C19
EndsWith(s, p) ==
    Len(s) >= Len(p) /\ SubSeq(s, Len(s) - Len(p) + 1, Len(s)) = p

\* a file name with its `.f90` or `.F90` extension replaced by `.o`
ExtensionReplaced(fname) ==
    IF EndsWith(fname, ".f90") \/ EndsWith(fname, ".F90")
    THEN SubSeq(fname, 1, Len(fname) - 4) \o ".o"
    ELSE fname

\* the sources the first pass has named
Named == {i \in DOMAIN sources : sources[i].path \in DOMAIN src_to_obj}

\* the object name of an earlier source is that of a later one
SameObject ==
    \E i, j \in DOMAIN sources :
        /\ i # j
        /\ ObjectName(sources[i].path) = ObjectName(sources[j].path)

\* the first pass gives every source the object name the extension rule gives
ObjectNamesByExtension ==
    \A i \in Named :
        src_to_obj[sources[i].path]
            = ExtensionReplaced(Basename(sources[i].path))

\* two sources of the same object name end makemake in the first pass
DuplicateObjectFails ==
    SameObject =>
        /\ pc \in {"first", "failed"}
        /\ Terminal => failure \in FirstPassFailures

\* without a failure the source-to-object map is injective and all_objs
\* holds every object name once
ObjectsOnce ==
    /\ NoRepeats(all_objs)
    /\ (failure = None /\ pc # "first") =>
          /\ Named = DOMAIN sources
          /\ \A i, j \in Named :
                src_to_obj[sources[i].path] = src_to_obj[sources[j].path]
                    => i = j
          /\ \A i \in Named : InList(src_to_obj[sources[i].path], all_objs)

\* C19: the object name of a source is the basename of its path with the
\* `.f90`/`.F90` extension replaced by `.o`; two sources of the same object
\* name make makemake fail in the first pass; without a failure the
\* source-to-object map is injective and every object name is listed once.
C19_NamingPass ==
    /\ ObjectNamesByExtension
    /\ DuplicateObjectFails
    /\ ObjectsOnce

\* ---- C21
\* the compile rule of an object and the rule of module files made from it
OwnModuleRules ==
    {p \in (DOMAIN rules) \X (DOMAIN rules) :
        /\ rules[p[1]].kind = "obj"
        /\ rules[p[2]].kind = "mod"
        /\ rules[p[2]].prereqs = rules[p[1]].targets}

\* C21: the compile rule `obj: src ...` of a source file never has among its
\* prerequisites a module file `m.mod` that the rule `m.mod: obj` of the same
\* file makes from that object.
C21_NoOwnModulePrerequisite ==
    \A p \in OwnModuleRules :
        \A k \in DOMAIN rules[p[2]].targets :
            ~InList(rules[p[2]].targets[k], rules[p[1]].prereqs)

\* ---- C8
\* the link-list pass has dealt with the k-th program of the program map
LinkPassed(k) ==
    \/ pc \in {"clean", "done"}
    \/ pc = "link" /\ k < si
    \/ pc = "failed" /\ failure = "KeyError" /\ k <= si

\* C8: for every program of the program map (the one renamed by
\* --executable included) the link-list pass starts the closure at the
\* program's own object and writes a link rule whose first prerequisite is
\* that object.
C8_LinkRuleStartsAtOwnObject ==
    \A k \in DOMAIN programs :
        LinkPassed(k) =>
            \E r \in LinkRules :
                /\ r.targets = <<programs[k].name>>
                /\ r.prereqs # <<>>
                /\ r.prereqs[1] = programs[k].obj

\* ---- C10
\* the usage pass has dealt with source j without failing
UsagePassed(j) ==
    \/ pc \in {"third", "link", "clean", "done"}
    \/ pc = "second" /\ j < si
    \/ pc = "failed" /\ failure = "KeyError"

\* the names source j defines, as a top-level unit or as a subprogram
DefinedIn(j) ==
    {u.name : u \in UnitsOf(j)} \cup
    UNION {{u.subprograms[k].name : k \in DOMAIN u.subprograms} : u \in UnitsOf(j)}

\* C10: after the usage pass has dealt with a source, every external-symbol
\* name that a unit or subprogram of that source bears is mapped to the
\* object file of that source (so that a second definition had to fail).
C10_ExternalProviderIsOwnName ==
    \A j \in DOMAIN sources :
        UsagePassed(j) =>
            \A n \in DefinedIn(j) \cap SeqSet(externals) :
                /\ n \in DOMAIN object_file_for
                /\ object_file_for[n] = src_to_obj[sources[j].path]

\* ------------------------------------------------------ declaration parser

\* ---- doc-comment fragments (flint.document)
DocMarkers == {"!>", "!<"}

\* is_docstring(fragments): some fragment carries the doc marker
is_docstring(frags) ==
    \E i \in DOMAIN frags : \E m \in DocMarkers : StartsWith(frags[i], m)

\* any(tok.startswith(marker) for tok in fragments)
HasMarker(frags, marker) == \E i \in DOMAIN frags : StartsWith(frags[i], marker)

RECURSIVE LStrip(_)
LStrip(str) ==
    IF Len(str) > 0 /\ SubSeq(str, 1, 1) = " "
    THEN LStrip(SubSeq(str, 2, Len(str)))
    ELSE str

\* one fragment without its marker (and the "@" of a group marker)
StripFragment(frag) ==
    LET body == SubSeq(frag, 3, Len(frag))
    IN  LStrip(IF StartsWith(body, "@") THEN SubSeq(body, 2, Len(body))
               ELSE body)

\* docstrip(fragments): the text of the fragments, joined
RECURSIVE docstrip(_)
docstrip(frags) ==
    IF frags = <<>> THEN ""
    ELSE IF Len(frags) = 1 THEN StripFragment(frags[1])
    ELSE StripFragment(frags[1]) \o " " \o docstrip(Tail(frags))

\* Python truth of a docstring: neither None nor empty
Truthy(x) == x # None /\ x # ""

\* Variable(name, vtype), then var.intent = var_intent
MkVariable(name, vtype, var_intent) ==
    [name |-> name, vtype |-> vtype, intent |-> var_intent, doc |-> None]

\* ---- Unit.parse_declaration_construct, lines 277-410
\* lines 364-367 (and 378-381, 387-390): the doc a token's tail gives the
\* variable, the group doc when the tail has none, else what it had
DocAttempt(ln, k, grp, had) ==
    IF is_docstring(ln.tails[k]) /\ ~HasMarker(ln.tails[k], "!>@}")
    THEN docstrip(ln.tails[k])
    ELSE IF Truthy(grp) THEN grp ELSE had

SetLastDoc(vs, d) == [vs EXCEPT ![Len(vs)].doc = d]

\* the variable made after a comma without `var.intent = var_intent`
AfterComma_NoIntent(ln, k, vtype, var_intent) ==
    [MkVariable(ln.toks[k], vtype, None) EXCEPT
        !.doc = IF is_docstring(ln.tails[k]) THEN docstrip(ln.tails[k])
                ELSE None]

\* lines 397-401: the variable made after a comma
AfterComma(ln, k, vtype, var_intent) ==
    [MkVariable(ln.toks[k], vtype, var_intent) EXCEPT
        !.doc = IF is_docstring(ln.tails[k]) THEN docstrip(ln.tails[k])
                ELSE None]

\* lines 371-401: `for tok in tokens` from position k on; vs are the unit's
\* variables, the last of them being `var`
RECURSIVE EntityLoop(_, _, _, _, _, _, _)
EntityLoop(ln, k, vs, vtype, var_intent, grp, errs) ==
    IF k > Len(ln.toks) THEN [vs |-> vs, raised |-> None, errs |-> errs]
    ELSE LET k1 == IF ln.toks[k] = "(" THEN NextClose(ln.toks, k) ELSE k
         IN  IF k1 = 0
             THEN [vs |-> vs, raised |-> StopIteration, errs |-> errs]
             ELSE LET vs1 == SetLastDoc(vs,
                                DocAttempt(ln, k1, grp, vs[Len(vs)].doc))
                  IN  IF ln.toks[k1] = ","
                      THEN LET vs2 == SetLastDoc(vs1,
                                         DocAttempt(ln, k1, grp,
                                                    vs1[Len(vs1)].doc))
                               endcomma == k1 + 1 > Len(ln.toks)
                               k2 == IF endcomma THEN k1 ELSE k1 + 1
                           IN  EntityLoop(ln, k2 + 1,
                                   Append(vs2,
                                          AfterComma(ln, k2, vtype, var_intent)),
                                   vtype, var_intent, grp,
                                   IF endcomma THEN Append(errs, "endcomma")
                                   ELSE errs)
                      ELSE EntityLoop(ln, k1 + 1, vs1, vtype, var_intent, grp,
                                      errs)

\* lines 322-353: `while tok == ','` with tok at position t
RECURSIVE AttrLoop(_, _, _)
AttrLoop(toks, t, var_intent) ==
    LET n == Len(toks)
        stop == [t |-> t, intent |-> var_intent, raised |-> StopIteration]
        fail == [t |-> t, intent |-> var_intent, raised |-> AssertionError]
    IN  IF toks[t] # "," THEN [t |-> t, intent |-> var_intent, raised |-> None]
        ELSE IF t + 1 > n THEN stop
        ELSE IF toks[t + 1] = "intent"
        THEN IF t + 2 > n THEN stop
             ELSE IF toks[t + 2] # "(" THEN fail
             ELSE IF t + 3 > n THEN stop
             ELSE IF toks[t + 3] \notin {"in", "out", "inout"} THEN fail
             ELSE IF t + 4 > n THEN stop
             ELSE LET spaced == toks[t + 3] = "in" /\ toks[t + 4] = "out"
                      vi == IF spaced THEN toks[t + 3] \o toks[t + 4]
                            ELSE toks[t + 3]
                      tc == IF spaced THEN t + 5 ELSE t + 4
                  IN  IF tc > n THEN stop
                      ELSE IF toks[tc] # ")" THEN fail
                      ELSE IF tc + 1 > n THEN stop
                      ELSE AttrLoop(toks, tc + 1, vi)
        ELSE IF toks[t + 1] = "dimension"
        THEN IF t + 2 > n THEN stop
             ELSE IF toks[t + 2] # "(" THEN fail
             ELSE LET close == MatchClose(toks, t + 3, 1)
                  IN  IF close = 0 \/ close + 1 > n THEN stop
                      ELSE AttrLoop(toks, close + 1, var_intent)
        ELSE IF t + 2 > n THEN stop
        ELSE AttrLoop(toks, t + 2, var_intent)

\* lines 305-315: the token after the type, past a `*` length and one
\* parenthesized kind or len; 0 when the tokens run out
AfterSelector(toks, t, vtype) ==
    LET n == Len(toks)
        t1 == IF t + 1 > n THEN 0
              ELSE IF vtype = "character" /\ toks[t + 1] = "*"
                   THEN IF t + 2 > n THEN 0 ELSE t + 2
              ELSE t + 1
    IN  IF t1 = 0 THEN 0
        ELSE IF toks[t1] = "("
             THEN LET close == NextClose(toks, t1)
                  IN  IF close = 0 \/ close + 1 > n THEN 0 ELSE close + 1
        ELSE t1

\* lines 282-288: the group docstring a statement's head opens
GroupOpened(u, ln) ==
    IF is_docstring(ln.head) /\ HasMarker(ln.head, "!>@{")
    THEN LET d == docstrip(ln.head) IN SubSeq(d, 3, Len(d))
    ELSE u.grp_docstr

\* lines 404-407: the group docstring after the statement
GroupClosed(ln, grp) ==
    IF /\ is_docstring(ln.tails[Len(ln.toks)])
       /\ HasMarker(ln.tails[Len(ln.toks)], "!>@}")
    THEN None ELSE grp

\* lines 305-410, with the type read: t is the position of the last token
\* of the type
DeclareEntities(u, ln, vtype, t) ==
    LET toks == ln.toks
        n == Len(toks)
        t1 == AfterSelector(toks, t, vtype)
    IN  IF t1 = 0 THEN Raise(u, StopIteration)
        ELSE LET a == AttrLoop(toks, t1, None)
             IN  IF a.raised # None THEN Raise(u, a.raised)
                 ELSE IF toks[a.t] = "::" /\ a.t + 1 > n
                 THEN Raise(u, StopIteration)
                 ELSE LET t2 == IF toks[a.t] = "::" THEN a.t + 1 ELSE a.t
                          var == [MkVariable(toks[t2], vtype, a.intent) EXCEPT
                                     !.doc = DocAttempt(ln, t2, u.grp_docstr,
                                                        None)]
                          e == EntityLoop(ln, t2 + 1,
                                          Append(u.variables, var), vtype,
                                          a.intent, u.grp_docstr, <<>>)
                      IN  IF e.raised # None
                          THEN [u EXCEPT !.variables = e.vs,
                                         !.raised = e.raised]
                          ELSE [u EXCEPT
                                   !.variables = e.vs,
                                   !.grp_docstr = GroupClosed(ln, @),
                                   !.statements = Append(@, "D")]

\* ---- Unit.parse_namelist, lines 412-434
RECURSIVE NmlGroup(_, _, _)
RECURSIVE NmlMembers(_, _, _, _)
\* the inner `while tok and tok != '/'` with tok at position t
NmlMembers(toks, t, nl, grp) ==
    LET n == Len(toks)
    IN  IF toks[t] = "/" THEN NmlGroup(toks, t, nl)
        ELSE LET nl1 == [nl EXCEPT ![grp] = Append(@, toks[t])]
             IN  IF t + 1 > n THEN [nl |-> nl1, raised |-> None]
                 ELSE IF toks[t + 1] \notin {",", "/"}
                 THEN [nl |-> nl1, raised |-> AssertionError]
                 ELSE IF toks[t + 1] = "/" THEN NmlGroup(toks, t + 1, nl1)
                 ELSE IF t + 2 > n
                 THEN [nl |-> nl1, raised |-> StopIteration]
                 ELSE NmlMembers(toks, t + 2, nl1, grp)
\* the outer `while tok` with tok at position t
NmlGroup(toks, t, nl) ==
    LET n == Len(toks)
    IN  IF toks[t] # "/" THEN [nl |-> nl, raised |-> AssertionError]
        ELSE IF t + 1 > n THEN [nl |-> nl, raised |-> StopIteration]
        ELSE LET grp == toks[t + 1]
                 nl1 == Put(nl, grp, <<>>)
             IN  IF t + 2 > n THEN [nl |-> nl1, raised |-> StopIteration]
                 ELSE IF toks[t + 2] # "/"
                 THEN [nl |-> nl1, raised |-> AssertionError]
                 ELSE IF t + 3 > n
                 THEN [nl |-> nl1, raised |-> StopIteration]
                 ELSE NmlMembers(toks, t + 3, nl1, grp)

parse_namelist(u, ln) ==
    IF Len(ln.toks) < 2 THEN Raise(u, StopIteration)
    ELSE LET r == NmlGroup(ln.toks, 2, u.namelists)
         IN  IF r.raised # None
             THEN [u EXCEPT !.namelists = r.nl, !.raised = r.raised]
             ELSE [u EXCEPT !.namelists = r.nl,
                            !.statements = Append(@, "N")]

\* lines 277-303: the group marker, then the type of the declaration
parse_variable_declaration(u, ln) ==
    LET toks == ln.toks
        n == Len(toks)
        u0 == [u EXCEPT !.grp_docstr = GroupOpened(u, ln)]
    IN  IF toks[1] \in intrinsic_types
        THEN DeclareEntities(u0, ln, toks[1], 1)
        ELSE IF toks[1] \in {"type", "class"}
        THEN IF n < 2 THEN Raise(u0, StopIteration)
             ELSE IF toks[2] # "(" THEN Raise(u0, AssertionError)
             ELSE IF n < 4 THEN Raise(u0, StopIteration)
             ELSE IF toks[4] # ")" THEN Raise(u0, AssertionError)
             ELSE DeclareEntities(u0, ln, toks[3], 4)
        ELSE IF toks[1] = "namelist" THEN parse_namelist(u0, ln)
        ELSE [u0 EXCEPT !.statements = Append(@, "X")]

access_specs == {"public", "private"}

\* Unit.parse_declaration_construct, lines 243-410, for the statements that
\* open no nested block (interface, enum, derived type)
parse_declaration_construct(u, ln) ==
    IF ln.toks[1] \in access_specs \/ ln.toks[1] = "data"
    THEN [u EXCEPT !.statements = Append(@, "d")]
    ELSE IF ln.toks[1] = "parameter"
    THEN [u EXCEPT !.statements = Append(@, "p")]
    ELSE parse_variable_declaration(u, ln)

\* ---- the declaration statements of the model
MaxNames == 3
MaxStmts == 2

NoTails(toks) == [i \in DOMAIN toks |-> <<>>]

\* n1 , n2 , n3
RECURSIVE CommaList(_)
CommaList(names) ==
    IF Len(names) = 1 THEN names
    ELSE <<names[1], ",">> \o CommaList(Tail(names))

EntityNames == <<"a", "b", "c", "d", "e">>
FirstNames(n) == SubSeq(EntityNames, 1, n)

\* `ty, intent(spelling) :: a, b, c`; shape records what was declared
IntentDecl(ty, spelling, intent, n) ==
    LET toks == <<ty, ",", "intent", "(">> \o spelling \o <<")", "::">>
                \o CommaList(FirstNames(n))
    IN  [toks |-> toks, head |-> <<>>, tails |-> NoTails(toks),
         shape |-> [family |-> "intent", vtype |-> ty, intent |-> intent,
                    names |-> FirstNames(n),
                    own |-> [i \in 1..n |-> None], opens |-> FALSE,
                    closes |-> FALSE]]

IntentSpellings == {<<<<"in">>, "in">>, <<<<"out">>, "out">>,
                    <<<<"inout">>, "inout">>, <<<<"in", "out">>, "inout">>}

IntentDecls ==
    {IntentDecl(ty, sp[1], sp[2], n) :
        ty \in {"integer", "character"}, sp \in IntentSpellings,
        n \in 1..MaxNames}

GroupDoc == "Group doc"
OwnDoc == "Own doc"

\* `integer :: x, y, z` with doc-comments: a group opened before the
\* statement, one own doc (after the first name, after the first comma or
\* after the last name), a group closed after the last token
DocDecl(names, opens, place, closes) ==
    LET toks == <<"integer", "::">> \o CommaList(names)
        n == Len(names)
        at == IF place = "name" THEN 3
              ELSE IF place = "comma" THEN 4
              ELSE IF place = "last" THEN Len(toks) ELSE 0
    IN  [toks |-> toks,
         head |-> IF opens THEN <<"!>@{ " \o GroupDoc>> ELSE <<>>,
         tails |-> [i \in DOMAIN toks |->
                       IF i = at THEN <<"!< " \o OwnDoc>>
                       ELSE IF closes /\ i = Len(toks) THEN <<"!>@}">>
                       ELSE <<>>],
         shape |-> [family |-> "doc", vtype |-> "integer", intent |-> None,
                    names |-> names,
                    own |-> [i \in 1..n |->
                                IF \/ i = 1 /\ place \in {"name", "comma"}
                                   \/ i = n /\ place = "last"
                                THEN OwnDoc ELSE None],
                    opens |-> opens, closes |-> closes]]

\* the placements that exist for the given names: a comma needs two names,
\* "name" and "last" coincide for one name, and the closing marker and an own
\* doc are not put on the same token
DocPlacements(names, closes) ==
    {"none"}
    \cup (IF Len(names) > 1 THEN {"name", "comma"} ELSE {})
    \cup (IF closes THEN {} ELSE {"last"})

DocDecls ==
    UNION {{DocDecl(names, opens, place, closes) :
               place \in DocPlacements(names, closes)} :
           names \in {<<"x">>, <<"x", "y">>, <<"x", "y", "z">>},
           opens \in BOOLEAN, closes \in BOOLEAN}

Plain(toks) ==
    [toks |-> toks, head |-> <<>>, tails |-> NoTails(toks),
     shape |-> [family |-> "other", vtype |-> None, intent |-> None,
                names |-> <<>>, own |-> <<>>, opens |-> FALSE,
                closes |-> FALSE]]

OtherDecls == {
    Plain(<<"real", "(", "8", ")", ",", "dimension", "(", "3", ")", "::", "r">>),
    Plain(<<"type", "(", "t", ")", "::", "v">>),
    Plain(<<"character", "*", "8", "::", "s">>),
    Plain(<<"private">>),
    Plain(<<"save", "x">>)
}

\* `ty sel :: e1 spec1, e2 spec2`: a kind or length selector after the type and
\* an array-spec after each entity, each balanced
ParenDecl(ty, sel, names, specs) ==
    LET ents == [i \in DOMAIN names |-> <<names[i]>> \o specs[i]]
        toks == <<ty>> \o sel \o <<"::">> \o ents[1]
                \o (IF Len(names) > 1 THEN <<",">> \o ents[2] ELSE <<>>)
    IN  [toks |-> toks, head |-> <<>>, tails |-> NoTails(toks),
         shape |-> [family |-> "paren", vtype |-> ty, intent |-> None,
                    names |-> names,
                    own |-> [i \in DOMAIN names |-> None], opens |-> FALSE,
                    closes |-> FALSE]]

\* ( 8 ), ( kind ( 1 ) ) and ( len = n ( 1 ) )
Selectors == {<<>>, <<"(", "8", ")">>, <<"(", "kind", "(", "1", ")", ")">>,
              <<"(", "len", "=", "n", "(", "1", ")", ")">>}

\* ( 3 ), ( 3 , 2 ) and ( n ( 1 ) , 2 )
ArraySpecs == {<<>>, <<"(", "3", ")">>, <<"(", "3", ",", "2", ")">>,
               <<"(", "n", "(", "1", ")", ",", "2", ")">>}

ParenDecls ==
    {ParenDecl(ty, sel, <<"a">>, <<sp>>) :
        ty \in {"real", "character"}, sel \in Selectors, sp \in ArraySpecs}
    \cup {ParenDecl("integer", <<>>, <<"a", "b">>, <<s1, s2>>) :
             s1 \in ArraySpecs, s2 \in ArraySpecs}

\* / group / m1 , m2
NmlGroupToks(g) == <<"/", g[1], "/">> \o CommaList(g[2])

\* `namelist /g1/ members1 [,] /g2/ members2`; groups are the pairs of a group
\* name and its member names, comma tells whether a comma separates them
NmlDecl(groups, comma) ==
    LET toks == <<"namelist">> \o NmlGroupToks(groups[1])
                \o (IF Len(groups) > 1
                    THEN (IF comma THEN <<",">> ELSE <<>>)
                         \o NmlGroupToks(groups[2])
                    ELSE <<>>)
    IN  [toks |-> toks, head |-> <<>>, tails |-> NoTails(toks),
         shape |-> [family |-> "namelist", vtype |-> None, intent |-> None,
                    names |-> <<>>, own |-> <<>>, opens |-> FALSE,
                    closes |-> FALSE, groups |-> groups]]

NmlGroupNames == {"g", "h"}
NmlMemberLists == {<<"a">>, <<"a", "b">>, <<"c">>}

NmlDecls ==
    {NmlDecl(<<<<g, ms>>>>, FALSE) : g \in NmlGroupNames, ms \in NmlMemberLists}
    \cup {NmlDecl(<<<<"g", m1>>, <<g2, m2>>>>, comma) :
             m1 \in {<<"a">>}, g2 \in NmlGroupNames, m2 \in {<<"b">>, <<"c">>},
             comma \in BOOLEAN}

DeclLines ==
    IntentDecls \cup DocDecls \cup OtherDecls \cup ParenDecls \cup NmlDecls

DeclInit ==
    /\ self = NewUnit
    /\ dline = NoLine
    /\ dbefore = NewUnit
    /\ ClassIdle
    /\ MakeIdle
    /\ LinkIdle
    /\ ParseIdle

\* one statement of the specification part is handed to
\* parse_declaration_construct
ParseDeclaration ==
    /\ self.raised = None
    /\ Len(self.statements) < MaxStmts
    /\ \E ln \in DeclLines :
          /\ dline' = ln
          /\ dbefore' = self
          /\ self' = parse_declaration_construct(self, ln)
    /\ UNCHANGED <<classVars, makeVars, linkVars, parseVars>>

DeclNext == ParseDeclaration

SpecDecl == DeclInit /\ [][DeclNext]_vars

\* ---- claims about the declaration parser

\* the variables the last statement appended
Appended ==
    SubSeq(self.variables, Len(dbefore.variables) + 1, Len(self.variables))

\* ---- C5
\* C5: a statement `type, intent(i) :: names` appends exactly one Variable
\* per listed name, in declared order, each with the statement's type and
\* intent; `intent(in out)` gives inout.
C5_OneVariablePerName ==
    dline.shape.family = "intent" =>
        /\ self.raised = None
        /\ Len(Appended) = Len(dline.shape.names)
        /\ \A i \in DOMAIN Appended :
              /\ Appended[i].name = dline.shape.names[i]
              /\ Appended[i].vtype = dline.shape.vtype
              /\ Appended[i].intent = dline.shape.intent

\* `integer, intent(in out) :: a, b, c` has been parsed into three inout
\* variables
C5_Witness ==
    /\ dline.shape.family = "intent"
    /\ InList("out", dline.toks) /\ InList("in", dline.toks)
    /\ Len(Appended) = 3
    /\ \A i \in DOMAIN Appended : Appended[i].intent = "inout"

\* ---- C17
\* a sequence of tokens holds a `(` after its first `(`
Nests(toks) ==
    \E i \in DOMAIN toks : \E j \in DOMAIN toks :
        /\ i < j /\ toks[i] = "(" /\ toks[j] = "("
        /\ \A k \in i..j : toks[k] # ")"

\* C17: a declaration whose type carries one balanced selector and whose
\* entities carry balanced array-specs, nested parentheses included, appends
\* exactly one Variable per declared entity name, in declared order; no token
\* of a selector or an array-spec becomes a Variable.
C17_BalancedParenthesesSkipped ==
    dline.shape.family = "paren" =>
        /\ self.raised = None
        /\ Len(Appended) = Len(dline.shape.names)
        /\ \A i \in DOMAIN Appended : Appended[i].name = dline.shape.names[i]

\* ---- C18
\* the member names the groups of a statement declare for the group g
RECURSIVE MembersIn(_, _)
MembersIn(groups, g) ==
    IF groups = <<>> THEN <<>>
    ELSE (IF groups[1][1] = g THEN groups[1][2] ELSE <<>>)
         \o MembersIn(Tail(groups), g)

\* what the group g held before the last statement
HeldBefore(g) ==
    IF g \in DOMAIN dbefore.namelists THEN dbefore.namelists[g] ELSE <<>>

\* C18: after a namelist statement that follows the grammar every key of the
\* namelists map is a declared group, mapped to the non-empty list of the
\* member names declared for it, in declared order.
C18_NamelistMap ==
    dline.shape.family = "namelist" =>
        /\ self.raised = None
        /\ \A g \in DOMAIN self.namelists :
              /\ self.namelists[g] # <<>>
              /\ self.namelists[g] =
                     HeldBefore(g) \o MembersIn(dline.shape.groups, g)

\* ---- C7
\* the group doc-comment in force while the last statement is parsed
GroupInForce ==
    IF dline.shape.opens THEN GroupDoc ELSE dbefore.grp_docstr

\* C7: between the opening and the closing marker every variable of every
\* declaration ends with the group doc-comment unless it has its own, which
\* it keeps; after the closing marker the group is over.
C7_GroupDocInherited ==
    (dline.shape.family = "doc" /\ self.raised = None) =>
        /\ Len(Appended) = Len(dline.shape.names)
        /\ \A i \in DOMAIN Appended :
              LET own == dline.shape.own[i]
              IN  Appended[i].doc =
                      IF own # None THEN own ELSE GroupInForce
        /\ dline.shape.closes => self.grp_docstr = None

\* ------------------------------------------------------------- Unit.parse

\* ---- what Unit.parse imports
\* flint.intrinsics.intrinsic_fns
intrinsic_fns == {"abs", "cos", "exp", "int", "max", "min", "real", "sin",
                  "sqrt"}

Letters == LowerLetters \o UpperLetters

IsWord(tok) ==
    tok # "" /\ \E i \in 1..Len(Letters) :
                    SubSeq(Letters, i, i) = SubSeq(tok, 1, 1)

StatementKeywords == {"if", "elseif", "do", "while", "select", "case",
                      "where", "forall", "call", "then", "else"}

\* flint.calls.get_callable_symbols: the identifiers immediately followed by
\* `(` that are not among the given variable names
get_callable_symbols(toks, var_names) ==
    {toks[i] : i \in {j \in 1..(Len(toks) - 1) :
                         /\ toks[j + 1] = "("
                         /\ IsWord(toks[j])
                         /\ toks[j] \notin StatementKeywords
                         /\ toks[j] \notin var_names}}

\* flint.construct.Construct.statement: `do`, or a conditional keyword first
\* and `then` last
ConstructStatement(toks) ==
    \/ toks[1] = "do"
    \/ toks[1] = "if" /\ toks[Len(toks)] = "then"

ConstructKinds == {"do", "if"}

ConstructEnd(toks) ==
    \/ \E k \in ConstructKinds : toks[1] = "end" \o k
    \/ Len(toks) >= 2 /\ toks[1] = "end" /\ toks[2] \in ConstructKinds

\* flint.construct.Construct.parse: the lines after `at` are consumed up to
\* the end of the construct (depth counts the constructs open), their
\* callable symbols going to the unit
RECURSIVE ConstructParse(_, _, _, _)
ConstructParse(ls, at, depth, var_names) ==
    IF depth = 0 \/ at >= Len(ls)
    THEN [at |-> at, callees |-> {}, seen |-> {}]
    ELSE LET toks == ls[at + 1].toks
             d == IF ConstructEnd(toks) THEN depth - 1
                  ELSE IF ConstructStatement(toks) THEN depth + 1
                  ELSE depth
             rest == ConstructParse(ls, at + 1, d, var_names)
         IN  [at |-> rest.at,
              callees |-> rest.callees
                          \cup get_callable_symbols(toks, var_names),
              seen |-> rest.seen \cup {at + 1}]

\* flint.interface.Interface.parse: the lines after `at` are consumed up to
\* `end interface`
RECURSIVE InterfaceParse(_, _)
InterfaceParse(ls, at) ==
    IF at >= Len(ls) THEN at
    ELSE LET toks == ls[at + 1].toks
         IN  IF \/ toks[1] = "endinterface"
                \/ Len(toks) >= 2 /\ toks[1] = "end" /\ toks[2] = "interface"
             THEN at + 1
             ELSE InterfaceParse(ls, at + 1)

\* ---- Unit, lines 31-63
attribute_specs ==
    access_specs \cup
    {"allocatable", "asynchronous", "codimension", "contiguous", "dimension",
     "external", "intent", "intrinsic", "namelist", "optional", "pointer",
     "protected", "save", "target", "value", "volatile", "common",
     "equivalence"}

declaration_types ==
    intrinsic_types \cup attribute_specs \cup
    {"type", "enum", "generic", "interface", "parameter", "procedure", "data",
     "format", "entry"}

\* a nested list of statements, as one entry of the enclosing list
RECURSIVE Concat(_)
Concat(strs) == IF strs = <<>> THEN "" ELSE Head(strs) \o Concat(Tail(strs))

Nested(stmts) == "[" \o Concat(stmts) \o "]"

\* Unit.parse_use_stmt, lines 222-233
parse_use_stmt(u, toks) ==
    IF Len(toks) < 2 THEN Raise(u, IndexError)
    ELSE LET i1 == IF toks[2] = "," THEN 4 ELSE 2
         IN  IF i1 > Len(toks) THEN Raise(u, IndexError)
             ELSE LET i2 == IF toks[i1] = "::" THEN i1 + 1 ELSE i1
                  IN  IF i2 > Len(toks) THEN Raise(u, IndexError)
                      ELSE [u EXCEPT !.used_modules = @ \cup {toks[i2]},
                                     !.statements = Append(@, "U")]

\* Unit.parse, line 155
FinalCallees_KeepIntrinsics(u) == u.callees

FinalCallees(u) == u.callees \ intrinsic_fns

\* ---- the calls of Unit.parse in progress
\* role: who called parse ("top": Source.parse, "sub": parse_subprogram,
\* "dtype": parse_declaration_construct); opener: the line the call began at
NewFrame(role, opener) ==
    [unit |-> NewUnit, phase |-> "header", var_names |-> {}, role |-> role,
     opener |-> opener]

Frame == frames[Len(frames)]

Caller == frames[Len(frames) - 1]

WithFrame(f) == [frames EXCEPT ![Len(frames)] = f]

Running == parsed.status = "running" /\ frames # <<>>

Goes(fs, at) == [frames |-> fs, at |-> at, parsed |-> parsed]

\* an exception leaves every Unit.parse in progress, the lexer being at `at`
RaisesAt(u, exc, at) ==
    [frames |-> frames, at |-> at,
     parsed |-> [status |-> "raised", exc |-> exc, unit |-> u]]

Raises(u, exc) == RaisesAt(u, exc, current_line)

\* the depth of nested Unit.parse calls at which the interpreter gives up
MaxDepth == 4

RecursionError == "RecursionError"

\* `Unit().parse(lines)` called from the innermost call, fs being the calls
\* in progress
Calls(fs, role, at) ==
    IF Len(fs) >= MaxDepth THEN Raises(Frame.unit, RecursionError)
    ELSE Goes(Append(fs, NewFrame(role, at)), at)

\* ---- the statements of the model
MaxBody == 3

ParseHeaders == {<<"subroutine", "s", "(", "x", ")">>, <<"module", "m">>}

BodyMenu == {
    Plain(<<"integer", "::", "x">>),
    Plain(<<"real", "::", "foo">>),
    Plain(<<"use", "m2">>),
    Plain(<<"call", "foo", "(", "x", ")">>),
    Plain(<<"y", "=", "sin", "(", "x", ")">>),
    Plain(<<"x", "(", "1", ")", "=", "bar", "(", "y", ")">>),
    Plain(<<"if", "(", "x", ")", "then">>),
    Plain(<<"end", "if">>),
    Plain(<<"contains">>),
    Plain(<<"subroutine", "t">>),
    Plain(<<"end", "subroutine">>),
    Plain(<<"type", "pt">>),
    Plain(<<"end", "type">>),
    Plain(<<"integer", ",", "intent", "(", "inn", ")", "::", "a">>),
    Plain(<<"namelist", "/", "g", "/", "a", ",">>),
    Plain(<<"enum", ",", "bind", "(", "c", ")">>),
    Plain(<<"type", "(", "pt", ")", "::", "v">>)
}

\* Source.parse, lines 31-35: the lexer has yielded a line that opens a unit
\* and the new Unit is given the lexer
ParseInit ==
    /\ lines \in {<<Plain(h)>> \o body :
                     h \in ParseHeaders,
                     body \in {<<>>} \cup SeqsUpTo(BodyMenu, MaxBody)}
    /\ current_line = 1
    /\ frames = <<NewFrame("top", 1)>>
    /\ parsed = [status |-> "running", exc |-> None, unit |-> NewUnit]
    /\ ClassIdle
    /\ MakeIdle
    /\ LinkIdle
    /\ DeclIdle

\* the lexer has no statement left: `for line in lines` ends, and
\* lines.current_line stays the last statement delivered
Exhausted == current_line >= Len(lines)

\* ---- Unit.parse, lines 149-161, one step at a time

\* line 149: parse_header(lines.current_line)
HeaderStep ==
    LET u1 == parse_header(Frame.unit, lines[current_line].toks)
    IN  IF u1.raised # None THEN Raises(u1, u1.raised)
        ELSE Goes(WithFrame([Frame EXCEPT !.unit = u1, !.phase = "spec"]),
                  current_line)

\* the unit after one statement of its specification part
Settled(u1, at) ==
    IF u1.raised # None THEN RaisesAt(u1, u1.raised, at)
    ELSE Goes(WithFrame([Frame EXCEPT !.unit = u1]), at)

\* lines 209-220 (and 244-261): one turn of `for line in lines`
SpecificationStep ==
    IF Exhausted
    THEN Goes(WithFrame([Frame EXCEPT !.phase = "exec1"]), current_line)
    ELSE LET at == current_line + 1
             ln == lines[at]
             toks == ln.toks
             u == Frame.unit
         IN  IF toks[1] = "use" THEN Settled(parse_use_stmt(u, toks), at)
             ELSE IF toks[1] = "import"
             THEN Settled([u EXCEPT !.statements = Append(@, "i")], at)
             ELSE IF toks[1] = "implicit"
             THEN Settled([u EXCEPT !.statements = Append(@, "I")], at)
             ELSE IF toks[1] \notin declaration_types
             THEN Goes(WithFrame([Frame EXCEPT !.phase = "exec1"]), at)
             ELSE IF \/ toks[1] = "interface"
                     \/ Len(toks) > 1 /\ toks[1] = "abstract"
                                      /\ toks[2] = "interface"
             THEN Goes(WithFrame([Frame EXCEPT
                           !.unit.interfaces = Append(@, at),
                           !.unit.statements = Append(@, "[interface]")]),
                       InterfaceParse(lines, at))
             ELSE IF toks[1] = "type" /\ Len(toks) < 2
             THEN RaisesAt(u, IndexError, at)
             ELSE IF toks[1] = "enum" \/ (toks[1] = "type" /\ toks[2] # "(")
             THEN Calls(frames, "dtype", at)
             ELSE Settled(parse_declaration_construct(u, ln), at)

\* lines 445-458 and 462-475: one line of the execution part
ExecutionLine(f, at) ==
    LET toks == lines[at].toks
        u1 == [f.unit EXCEPT
                  !.callees = @ \cup get_callable_symbols(toks, f.var_names),
                  !.exec_part = @ \cup {at}]
    IN  IF ConstructStatement(toks)
        THEN LET cons == ConstructParse(lines, at, 1, f.var_names)
             IN  Goes(WithFrame([f EXCEPT
                          !.unit = [u1 EXCEPT
                                       !.callees = @ \cup cons.callees,
                                       !.exec_part = @ \cup cons.seen,
                                       !.statements =
                                           Append(@, "[construct]")],
                          !.phase = "exec"]),
                      cons.at)
        ELSE IF end_statement(u1.utype, toks) \/ toks[1] = "contains"
        THEN Goes(WithFrame([f EXCEPT !.unit = u1, !.phase = "sub1"]), at)
        ELSE Goes(WithFrame([f EXCEPT
                      !.unit = [u1 EXCEPT !.statements = Append(@, "E")],
                      !.phase = "exec"]),
                  at)

\* lines 441-458: the line that ended the specification part
ExecutionFirstStep ==
    ExecutionLine([Frame EXCEPT
                      !.var_names = {Frame.unit.variables[i].name :
                                        i \in DOMAIN Frame.unit.variables}],
                  current_line)

\* lines 461-475: one turn of `for line in lines`
ExecutionStep ==
    IF Exhausted
    THEN Goes(WithFrame([Frame EXCEPT !.phase = "sub1"]), current_line)
    ELSE ExecutionLine(Frame, current_line + 1)

\* lines 483-492 and 495-505: one line of the subprogram part
SubprogramLine(at, first) ==
    LET toks == lines[at].toks
        u == Frame.unit
    IN  IF statement(toks)
        THEN Calls(WithFrame([Frame EXCEPT !.phase = "sub"]), "sub", at)
        ELSE IF end_statement(u.utype, toks)
        THEN Goes(WithFrame([Frame EXCEPT !.phase = "final"]), at)
        ELSE Goes(WithFrame([Frame EXCEPT
                      !.unit.statements =
                          Append(@, IF first THEN UnitTag(u.utype) ELSE "X"),
                      !.phase = "sub"]),
                  at)

SubprogramFirstStep == SubprogramLine(current_line, TRUE)

SubprogramStep ==
    IF Exhausted
    THEN Goes(WithFrame([Frame EXCEPT !.phase = "final"]), current_line)
    ELSE SubprogramLine(current_line + 1, FALSE)

\* lines 155-159, and what the caller does with the parsed unit (lines
\* 259-261 for a derived type, 486-487 and 498-499 for a subprogram)
ReturnStep ==
    LET u1 == [Frame.unit EXCEPT
                  !.callees = FinalCallees(Frame.unit),
                  !.statements = Append(@, UnitTag(Frame.unit.utype))]
        opener == lines[Frame.opener].toks
        below == SubSeq(frames, 1, Len(frames) - 2)
    IN  IF Frame.role = "top"
        THEN [frames |-> <<>>, at |-> current_line,
              parsed |-> [status |-> "returned", exc |-> None, unit |-> u1]]
        ELSE IF Frame.role = "sub"
        THEN Goes(Append(below,
                         [Caller EXCEPT
                             !.unit.subprograms = Append(@, u1),
                             !.unit.statements =
                                 Append(@, Nested(u1.statements))]),
                  current_line)
        ELSE Goes(Append(below,
                         [Caller EXCEPT
                             !.unit.derived_types =
                                 Append(@, [u1 EXCEPT
                                               !.name = opener[Len(opener)]]),
                             !.unit.statements =
                                 Append(@, Nested(u1.statements))]),
                  current_line)

Becomes(r) ==
    /\ frames' = r.frames
    /\ current_line' = r.at
    /\ parsed' = r.parsed
    /\ UNCHANGED <<lines, classVars, makeVars, linkVars, declVars>>

ParseHeader == Running /\ Frame.phase = "header" /\ Becomes(HeaderStep)

ParseSpecification ==
    Running /\ Frame.phase = "spec" /\ Becomes(SpecificationStep)

ParseExecutionFirst ==
    Running /\ Frame.phase = "exec1" /\ Becomes(ExecutionFirstStep)

ParseExecution == Running /\ Frame.phase = "exec" /\ Becomes(ExecutionStep)

ParseSubprogramFirst ==
    Running /\ Frame.phase = "sub1" /\ Becomes(SubprogramFirstStep)

ParseSubprogram == Running /\ Frame.phase = "sub" /\ Becomes(SubprogramStep)

ParseReturn == Running /\ Frame.phase = "final" /\ Becomes(ReturnStep)

ParseNext ==
    \/ ParseHeader
    \/ ParseSpecification
    \/ ParseExecutionFirst
    \/ ParseExecution
    \/ ParseSubprogramFirst
    \/ ParseSubprogram
    \/ ParseReturn

SpecParse == ParseInit /\ [][ParseNext]_vars

\* ---- claims about Unit.parse

DeclaredNames(u) == {u.variables[i].name : i \in DOMAIN u.variables}

\* the units whose parse has returned: the outermost and its subprograms
Returned(u) == {u} \cup {u.subprograms[i] : i \in DOMAIN u.subprograms}

\* `call f(...)` with f neither intrinsic nor declared in u
CallsUser(toks, u) ==
    /\ Len(toks) >= 3
    /\ toks[1] = "call"
    /\ toks[3] = "("
    /\ toks[2] \notin intrinsic_fns
    /\ toks[2] \notin DeclaredNames(u)

C6_WitnessDeclared ==
    /\ parsed.status = "returned"
    /\ "x" \in DeclaredNames(parsed.unit)
    /\ \E i \in parsed.unit.exec_part : lines[i].toks[1] = "x"
    /\ parsed.unit.callees = {"bar"}

\* ---- C11
\* an intent that is none of in, out, inout; a namelist ending in a comma
BadIntent(toks) ==
    \E i \in 1..(Len(toks) - 2) :
        /\ toks[i] = "intent"
        /\ toks[i + 1] = "("
        /\ toks[i + 2] \notin {"in", "out", "inout"}

DanglingNamelist(toks) == toks[1] = "namelist" /\ toks[Len(toks)] = ","

\* C11: a declaration with a bad intent value, or a namelist statement
\* ending in a dangling comma, does not end the parse: no exception leaves
\* Unit.parse at such a statement.
C11_GrammarViolationRecoverable ==
    parsed.status = "raised" =>
        LET toks == lines[current_line].toks
        IN  ~BadIntent(toks) /\ ~DanglingNamelist(toks)

\* ---- C15
\* the statements parse_declaration_construct takes for a derived type
OpensDerivedType(toks) ==
    \/ toks[1] = "enum"
    \/ toks[1] = "type" /\ Len(toks) >= 2 /\ toks[2] # "("

EndsDerivedType(toks) ==
    \/ toks[1] \in {"end", "endtype", "endenum"} /\ Len(toks) = 1
    \/ Len(toks) >= 2 /\ toks[1] = "end" /\ toks[2] \in {"type", "enum"}

\* C15: a specification statement starting with `enum`, or with `type` not
\* followed by `(`, is parsed with the statements up to its end statement
\* as one nested Unit, appended to derived_types under the last token of the
\* header line, after which the specification part goes on; `type (` is a
\* variable declaration. Stated for the first statement after the header.
C15_DerivedTypeDispatch ==
    Len(lines) >= 2 =>
        LET h == lines[2].toks
            closed == \E j \in 3..Len(lines) : EndsDerivedType(lines[j].toks)
        IN  /\ (OpensDerivedType(h) /\ closed) =>
                  /\ ~(parsed.status = "raised" /\ current_line = 2)
                  /\ (Running /\ Len(frames) = 1 /\ current_line >= 2) =>
                         /\ Frame.unit.derived_types # <<>>
                         /\ Frame.unit.derived_types[1].name = h[Len(h)]
                  /\ (/\ Running /\ Len(frames) = 2
                      /\ Frame.role = "dtype" /\ Frame.phase = "final"
                      /\ current_line < Len(lines)) =>
                         EndsDerivedType(lines[current_line].toks)
            /\ (/\ h[1] = "type" /\ ~OpensDerivedType(h)
                /\ Running /\ Len(frames) = 1 /\ current_line = 2) =>
                      /\ Frame.unit.derived_types = <<>>
                      /\ Frame.unit.variables # <<>>
                      /\ Frame.unit.variables[1].name = h[Len(h)]

\* ---- C20
\* the stream ends while a unit is open: no end statement of the outermost
\* unit is among its lines
MissingEnd ==
    \A i \in 2..Len(lines) :
        ~end_statement(lines[1].toks[1], lines[i].toks)

\* C20: Unit.parse terminates on every finite stream, a stream that ends
\* before the matching end statement included: the lexer only moves forward
\* and no call of parse goes on calling parse without reading a statement.
C20_ParseTerminates ==
    /\ current_line \in 1..Len(lines)
    /\ \A k \in DOMAIN frames : frames[k].opener <= current_line
    /\ parsed.exc # RecursionError

\* ------------------------------------------------- Unit.parse of unit.py

\* unit.py, lines 24-40
attribute_specs_0 ==
    {"codimension", "contiguous", "dimension", "external", "intent",
     "namelist", "optional", "pointer", "protected", "save", "target",
     "volatile", "value", "common", "equivalence"}

\* unit.py, lines 42-52
declaration_types_0 ==
    intrinsic_types \cup attribute_specs_0 \cup
    {"type", "enum", "generic", "interface", "parameter", "procedure", "data",
     "format", "entry"}

\* `tok in str` for two strings: tok is a substring of str
InString(tok, str) ==
    \/ tok = ""
    \/ \E i \in 1..Len(str) : \E j \in i..Len(str) : SubSeq(str, i, j) = tok

\* unit.py, lines 153-164: does parse_specification take the statement
TakenBySpecification_0(toks) ==
    \/ toks[1] = "use"
    \/ toks[1] = "import"
    \/ InString(toks[1], "implicit")
    \/ toks[1] \in declaration_types_0

\* a call of Unit.parse in progress; spec_lines are the statements its
\* parse_specification took, exec_first the first one its parse_execution
\* examined (0: none yet)
NewFrame_0(role, opener) ==
    [utype |-> None, name |-> None, phase |-> "name", role |-> role,
     opener |-> opener, spec_lines |-> {}, exec_first |-> 0]

Calls_0(fs, role, at) ==
    IF Len(fs) >= MaxDepth
    THEN [frames |-> frames, at |-> at,
          parsed |-> [status |-> "raised", exc |-> RecursionError,
                      unit |-> NewUnit]]
    ELSE Goes(Append(fs, NewFrame_0(role, at)), at)

\* line 114: parse_name(lines.current_line)
NameStep_0 ==
    LET u == parse_name(NewUnit, lines[current_line].toks)
    IN  Goes(WithFrame([Frame EXCEPT !.utype = u.utype, !.name = u.name,
                                     !.phase = "spec"]),
             current_line)

\* lines 153-164: one turn of `for line in lines`
SpecificationStep_0 ==
    IF Exhausted
    THEN Goes(WithFrame([Frame EXCEPT !.phase = "exec1"]), current_line)
    ELSE LET at == current_line + 1
         IN  IF TakenBySpecification_0(lines[at].toks)
             THEN Goes(WithFrame([Frame EXCEPT !.spec_lines = @ \cup {at}]),
                       at)
             ELSE Goes(WithFrame([Frame EXCEPT !.phase = "exec1"]), at)

\* lines 186-194 and 197-206: one line of the execution part
ExecutionLine_0(f, at) ==
    LET toks == lines[at].toks
    IN  IF ConstructStatement(toks)
        THEN Goes(WithFrame([f EXCEPT !.phase = "exec"]),
                  ConstructParse(lines, at, 1, {}).at)
        ELSE IF end_statement(f.utype, toks) \/ toks[1] = "contains"
        THEN Goes(WithFrame([f EXCEPT !.phase = "sub1"]), at)
        ELSE Goes(WithFrame([f EXCEPT !.phase = "exec"]), at)

ExecutionFirstStep_0 ==
    ExecutionLine_0([Frame EXCEPT !.exec_first = current_line], current_line)

ExecutionStep_0 ==
    IF Exhausted
    THEN Goes(WithFrame([Frame EXCEPT !.phase = "sub1"]), current_line)
    ELSE ExecutionLine_0(Frame, current_line + 1)

\* lines 212-220 and 222-230: one line of the subprogram part
SubprogramLine_0(at) ==
    LET toks == lines[at].toks
    IN  IF statement(toks)
        THEN Calls_0(WithFrame([Frame EXCEPT !.phase = "sub"]), "sub", at)
        ELSE IF end_statement(Frame.utype, toks)
        THEN Goes(WithFrame([Frame EXCEPT !.phase = "final"]), at)
        ELSE Goes(WithFrame([Frame EXCEPT !.phase = "sub"]), at)

SubprogramStep_0 ==
    IF Exhausted
    THEN Goes(WithFrame([Frame EXCEPT !.phase = "final"]), current_line)
    ELSE SubprogramLine_0(current_line + 1)

\* lines 119-121: the unit is printed and parse returns
ReturnStep_0 ==
    IF Frame.role = "top"
    THEN [frames |-> <<Frame>>, at |-> current_line,
          parsed |-> [status |-> "returned", exc |-> None, unit |-> NewUnit]]
    ELSE Goes(SubSeq(frames, 1, Len(frames) - 1), current_line)

ParseName_0 == Running /\ Frame.phase = "name" /\ Becomes(NameStep_0)

ParseSpecification_0 ==
    Running /\ Frame.phase = "spec" /\ Becomes(SpecificationStep_0)

ParseExecutionFirst_0 ==
    Running /\ Frame.phase = "exec1" /\ Becomes(ExecutionFirstStep_0)

ParseExecution_0 ==
    Running /\ Frame.phase = "exec" /\ Becomes(ExecutionStep_0)

ParseSubprogramFirst_0 ==
    Running /\ Frame.phase = "sub1" /\ Becomes(SubprogramLine_0(current_line))

ParseSubprogram_0 ==
    Running /\ Frame.phase = "sub" /\ Becomes(SubprogramStep_0)

ParseReturn_0 == Running /\ Frame.phase = "final" /\ Becomes(ReturnStep_0)

\* the statements of the model (none holds the token `type`, which only
\* units/unit.py takes for a unit kind)
Headers_0 == {<<"subroutine", "s">>, <<"program", "p">>}

BodyMenu_0 == {
    Plain(<<"use", "m2">>),
    Plain(<<"implicit", "none">>),
    Plain(<<"integer", "::", "x">>),
    Plain(<<"i", "=", "1">>),
    Plain(<<"x", "=", "2">>),
    Plain(<<"call", "foo", "(", "x", ")">>),
    Plain(<<"do">>),
    Plain(<<"end", "do">>),
    Plain(<<"contains">>),
    Plain(<<"subroutine", "t">>),
    Plain(<<"end", "subroutine">>),
    Plain(<<"end", "program">>)
}

ParseInit_0 ==
    /\ lines \in {<<Plain(h)>> \o body :
                     h \in Headers_0,
                     body \in {<<>>} \cup SeqsUpTo(BodyMenu_0, MaxBody)}
    /\ current_line = 1
    /\ frames = <<NewFrame_0("top", 1)>>
    /\ parsed = [status |-> "running", exc |-> None, unit |-> NewUnit]
    /\ ClassIdle
    /\ MakeIdle
    /\ LinkIdle
    /\ DeclIdle

ParseNext_0 ==
    \/ ParseName_0
    \/ ParseSpecification_0
    \/ ParseExecutionFirst_0
    \/ ParseExecution_0
    \/ ParseSubprogramFirst_0
    \/ ParseSubprogram_0
    \/ ParseReturn_0

SpecParse_0 == ParseInit_0 /\ [][ParseNext_0]_vars

\* ---- C16
\* the first tokens of the statements of a specification part
SpecificationKeywords ==
    {"use", "import", "implicit"} \cup declaration_types \cup
    declaration_types_0

\* C16: parse_specification takes a statement only if its first token is
\* `use`, `import`, `implicit` or a declaration keyword, and the statement
\* it stops at is the first one parse_execution examines: no executable
\* statement is taken by the specification state and none is skipped.
C16_SpecificationHandsOver ==
    \A k \in DOMAIN frames :
        LET f == frames[k]
            next == f.opener + Cardinality(f.spec_lines) + 1
        IN  /\ \A i \in f.spec_lines :
                  lines[i].toks[1] \in SpecificationKeywords
            /\ f.spec_lines = (f.opener + 1)..(next - 1)
            /\ (f.exec_first # 0 /\ next <= Len(lines)) =>
                  /\ f.exec_first = next
                  /\ lines[next].toks[1] \notin SpecificationKeywords

\* ------------------------------------------------------ link closure, stepwise

\* the object files of the closure model
Objs == {"A.o", "B.o", "C.o", "D.o"}

MaxNeeded == 2

\* a needed_for_link_by entry: objects, each once (lines 219, 225)
NeededLists ==
    {q \in {<<>>} \cup SeqsUpTo(Objs, MaxNeeded) :
        \A i, j \in DOMAIN q : q[i] = q[j] => i = j}

\* a call of __generate_link_list about to test `level<=99`
NewCall(objects, level) ==
    [objects |-> objects, level |-> level, at |-> "guard", oi |-> 0, ni |-> 0]

LinkInit ==
    /\ nflb \in {g \in [Objs -> NeededLists] : g["D.o"] = <<>>}
    /\ lstack = <<NewCall(<<"A.o">>, 0)>>
    /\ obj_list = <<>>
    /\ lpc = "run"
    /\ truncated = FALSE
    /\ ClassIdle
    /\ MakeIdle
    /\ DeclIdle
    /\ ParseIdle

Top == lstack[Len(lstack)]
Pop == SubSeq(lstack, 1, Len(lstack) - 1)
SetTop(f) == [lstack EXCEPT ![Len(lstack)] = f]

\* `return obj_list`: back in the caller, or out of the outermost call
ReturnTo(stack) ==
    /\ lstack' = stack
    /\ lpc' = IF stack = <<>> THEN "done" ELSE "run"

\* the test `o not in obj_list` of line 66, with a bug: always true
NotListed_Always(o, lst) == TRUE

\* the test `o not in obj_list` of line 66
NotListed(o, lst) == ~InList(o, lst)

\* line 67 with a bug: the object is put in front
Listed_InFront(lst, o) == <<o>> \o lst

\* line 67: obj_list = obj_list + [ o ]
Listed(lst, o) == Append(lst, o)

\* line 64, `level<=99` holds: enter `for o in objects`
LinkEnter ==
    /\ lpc = "run"
    /\ Top.at = "guard"
    /\ Top.level <= LevelLimit
    /\ lstack' = SetTop([Top EXCEPT !.at = "objects", !.oi = 1])
    /\ UNCHANGED <<nflb, obj_list, lpc, truncated>>
    /\ UNCHANGED <<classVars, makeVars, declVars, parseVars>>

\* line 64, `level<=99` fails: line 71 returns obj_list as it came
LinkTruncate ==
    /\ lpc = "run"
    /\ Top.at = "guard"
    /\ Top.level > LevelLimit
    /\ truncated' = TRUE
    /\ ReturnTo(Pop)
    /\ UNCHANGED <<nflb, obj_list>>
    /\ UNCHANGED <<classVars, makeVars, declVars, parseVars>>

\* lines 65-68: the next o of `for o in objects`
LinkVisit ==
    /\ lpc = "run"
    /\ Top.at = "objects"
    /\ Top.oi <= Len(Top.objects)
    /\ LET o == Top.objects[Top.oi]
       IN  IF NotListed(o, obj_list)
           THEN /\ obj_list' = Listed(obj_list, o)
                /\ lstack' = SetTop(IF o \in DOMAIN nflb
                                    THEN [Top EXCEPT !.at = "needed", !.ni = 1]
                                    ELSE [Top EXCEPT !.oi = @ + 1])
           ELSE /\ obj_list' = obj_list
                /\ lstack' = SetTop([Top EXCEPT !.oi = @ + 1])
    /\ UNCHANGED <<nflb, lpc, truncated>>
    /\ UNCHANGED <<classVars, makeVars, declVars, parseVars>>

\* lines 69-70: the next n of `for n in needed_for_link_by[o]`, a call one
\* level down
LinkRecurse ==
    /\ lpc = "run"
    /\ Top.at = "needed"
    /\ LET needed == nflb[Top.objects[Top.oi]]
       IN  /\ Top.ni <= Len(needed)
           /\ lstack' = Append(SetTop([Top EXCEPT !.ni = @ + 1]),
                               NewCall(<<needed[Top.ni]>>, Top.level + 1))
    /\ UNCHANGED <<nflb, obj_list, lpc, truncated>>
    /\ UNCHANGED <<classVars, makeVars, declVars, parseVars>>

\* line 69: `for n in ...` is exhausted, back to `for o in objects`
LinkNeededDone ==
    /\ lpc = "run"
    /\ Top.at = "needed"
    /\ Top.ni > Len(nflb[Top.objects[Top.oi]])
    /\ lstack' = SetTop([Top EXCEPT !.at = "objects", !.oi = @ + 1])
    /\ UNCHANGED <<nflb, obj_list, lpc, truncated>>
    /\ UNCHANGED <<classVars, makeVars, declVars, parseVars>>

\* line 71: `for o in objects` is exhausted, return obj_list
LinkReturn ==
    /\ lpc = "run"
    /\ Top.at = "objects"
    /\ Top.oi > Len(Top.objects)
    /\ ReturnTo(Pop)
    /\ UNCHANGED <<nflb, obj_list, truncated>>
    /\ UNCHANGED <<classVars, makeVars, declVars, parseVars>>

LinkNext ==
    \/ LinkEnter
    \/ LinkTruncate
    \/ LinkVisit
    \/ LinkRecurse
    \/ LinkNeededDone
    \/ LinkReturn

\* a call that has started runs to its end
SpecLink == LinkInit /\ [][LinkNext]_vars /\ WF_vars(LinkNext)

\* ---- C4
\* A needs B and B needs A, nothing else
C4_TwoCycle == nflb["A.o"] = <<"B.o">> /\ nflb["B.o"] = <<"A.o">>

RECURSIVE WithinDistance(_)
WithinDistance(k) ==
    IF k = 0 THEN {"A.o"}
    ELSE LET near == WithinDistance(k - 1)
         IN  near \cup UNION {SeqSet(nflb[o]) : o \in near}

Reachable == WithinDistance(Cardinality(Objs))


\* C12: when every reachable object is at a distance the depth bound
\* allows, the returned list holds exactly the reachable objects, each once.
C12_ClosureIsReachableSet ==
    (lpc = "done" /\ Reachable = WithinDistance(LevelLimit)) =>
        /\ SeqSet(obj_list) = Reachable
        /\ NoRepeats(obj_list)

\* ---- C13
\* lst, then the objects of needs from position k on that lst does not hold
RECURSIVE AppendNew(_, _, _)
AppendNew(lst, needs, k) ==
    IF k > Len(needs) THEN lst
    ELSE AppendNew(IF InList(needs[k], lst) THEN lst
                   ELSE Append(lst, needs[k]),
                   needs, k + 1)

\* breadth order: the objects needed by lst[k], lst[k+1], ... are listed
\* after all of lst
RECURSIVE BreadthFrom(_, _)
BreadthFrom(lst, k) ==
    IF k > Len(lst) THEN lst
    ELSE BreadthFrom(AppendNew(lst, nflb[lst[k]], 1), k + 1)

\* C13 as stated: the list is in breadth order, de-duplicated.
C13_BreadthOrder ==
    lpc = "done" => obj_list = BreadthFrom(<<"A.o">>, 1)

\* depth-first pre-order: o, then at once everything first reached through
\* its first needed object, then through its second, ...; nothing is
\* followed deeper than the depth bound
RECURSIVE Preorder(_, _, _)
RECURSIVE PreorderAll(_, _, _, _)
Preorder(o, lst, depth) ==
    IF depth > LevelLimit \/ InList(o, lst) THEN lst
    ELSE PreorderAll(nflb[o], 1, Append(lst, o), depth + 1)

PreorderAll(needs, k, lst, depth) ==
    IF k > Len(needs) THEN lst
    ELSE PreorderAll(needs, k + 1, Preorder(needs[k], lst, depth), depth)

\* C13 (amended): the list starts with the start object, holds no object
\* twice and is in depth-first pre-order.
C13_DepthFirstOrder ==
    lpc = "done" =>
        /\ obj_list[1] = "A.o"
        /\ NoRepeats(obj_list)
        /\ obj_list = Preorder("A.o", <<>>, 0)

\* A needs B and C, B needs D: D is listed before C
C13_Witness ==
    /\ lpc = "done"
    /\ nflb["A.o"] = <<"B.o", "C.o">>
    /\ nflb["B.o"] = <<"D.o">>
    /\ obj_list = <<"A.o", "B.o", "D.o", "C.o">>

\* ---- C14
\* C14: for a line Unit.statement accepts, the header parse sets the kind
\* to the first unit-kind keyword and the name to the token after it, or to
\* none when the keyword ends the line, and does not raise.
C14_HeaderKindAndName ==
    op \in {"parse_header", "parse_name"} =>
        LET idx == FirstUnitIdx(line)
        IN  /\ self.raised = None
            /\ self.utype = line[idx]
            /\ self.name = IF idx < Len(line) THEN line[idx + 1] ELSE None

Init == ClassInit
Next == ClassNext
Spec == Init /\ [][Next]_vars
====
